---------------------------- MODULE Spec2Model ----------------------------
(***************************************************************************)
(* Model of the SMB banking decision pipeline of src/checking_api.py and   *)
(* src/lending_api.py: two FastAPI applications over one relational store. *)
(*                                                                         *)
(* Every table is a sequence of rows in insertion order (the order of the  *)
(* created_at column); a row's id is its position in its table.  Nullable  *)
(* columns hold None (the empty sequence) or Some(v) (a one-element        *)
(* sequence).  Money is counted in hundredths, so that the 0.8 and 0.5     *)
(* factors of the offer generator are exact on the values used.            *)
(* Each request handler is an operator from (db, request) to the store     *)
(* after the request and the HTTP response; each action applies one        *)
(* handler to the store, so a handler runs to completion before the next   *)
(* one starts.  The responses are not kept in the state: a property of a   *)
(* response is stated of the handler applied to the reachable stores.      *)
(***************************************************************************)
EXTENDS Integers, Sequences, FiniteSets, TLC

(***************************************************************************)
(* Bounds of the model.                                                    *)
(***************************************************************************)
NumChecking == 1
NumLending == 2
MaxRiskScores == 2
MaxNotifications == 1
MaxSummaries == 1
MaxUnderwritings == 2
MaxOffers == 2
\* The rows written in one run, all tables together.
MaxRows == 7
MaxCallers == 2

(***************************************************************************)
(* Nullable columns and Python truthiness.                                 *)
(***************************************************************************)
None == <<>>
Some(v) == <<v>>
Val(x) == x[1]
\* `not x` of a nullable text column: None and the empty string are falsy.
Falsy(x) == x = None \/ Val(x) = ""

\* One whole unit of money, in hundredths.
Unit == 100

-----------------------------------------------------------------------------
(***************************************************************************)
(* The store.                                                              *)
(***************************************************************************)
VARIABLES
    businesses,                    \* business id -> Business row
    checking_applications,         \* application id -> CheckingApplication row
    checking_owners,               \* rows of checking_owners
    checking_documents,            \* rows of checking_documents
    checking_risk_scores,          \* rows of checking_risk_scores
    checking_accounts,             \* rows of checking_accounts
    notifications,                 \* rows of notifications (both APIs)
    lending_applications,          \* application id -> LendingApplication row
    lending_transaction_summaries, \* rows of lending_transaction_summaries
    business_credit_reports,       \* rows of business_credit_reports
    lending_underwriting,          \* rows of lending_underwriting
    lending_offers,                \* rows of lending_offers
    credit_facilities,             \* rows of credit_facilities
    pending                        \* caller -> the open call it has checked
                                   \* and not committed yet, or None

vars == <<businesses, checking_applications, checking_owners, checking_documents,
          checking_risk_scores, checking_accounts, notifications,
          lending_applications, lending_transaction_summaries,
          business_credit_reports, lending_underwriting, lending_offers,
          credit_facilities, pending>>

\* The store as one value, as a handler's session sees it.
DB == [businesses |-> businesses,
       checking_applications |-> checking_applications,
       checking_owners |-> checking_owners,
       checking_documents |-> checking_documents,
       checking_risk_scores |-> checking_risk_scores,
       checking_accounts |-> checking_accounts,
       notifications |-> notifications,
       lending_applications |-> lending_applications,
       lending_transaction_summaries |-> lending_transaction_summaries,
       business_credit_reports |-> business_credit_reports,
       lending_underwriting |-> lending_underwriting,
       lending_offers |-> lending_offers,
       credit_facilities |-> credit_facilities]

\* The request handlers run in a thread pool, each with a session of its
\* own: the callers that may be inside a handler at a time.
Callers == 1..MaxCallers

(***************************************************************************)
(* Query helpers.                                                          *)
(***************************************************************************)
\* The positions of the rows of table t whose column has the value, in
\* table order.
RECURSIVE RowsWhere(_, _, _, _)
RowsWhere(t, column, value, i) ==
    IF i > Len(t) THEN <<>>
    ELSE (IF t[i][column] = value THEN <<i>> ELSE <<>>)
         \o RowsWhere(t, column, value, i + 1)

\* .order_by(created_at.desc()).first(): the position of the last inserted
\* row of t whose column has the value, or 0 when there is none.
LatestWhere(t, column, value) ==
    LET ix == {i \in 1..Len(t) : t[i][column] = value}
    IN IF ix = {} THEN 0 ELSE CHOOSE i \in ix : \A j \in ix : j <= i

\* What a handler yields: the store it leaves and the response it sends.
Result(db, code, body) == [db |-> db, status_code |-> code, body |-> body]


Range(s) == {s[i] : i \in 1..Len(s)}

(***************************************************************************)
(* Strings the code inspects character by character are sequences of       *)
(* one-character strings.                                                  *)
(***************************************************************************)
\* str.upper(), on the letters the product identifiers use.
UpperChar(c) ==
    CASE c = "p" -> "P" [] c = "r" -> "R" [] c = "e" -> "E" [] c = "m" -> "M"
      [] c = "i" -> "I" [] c = "u" -> "U" [] c = "b" -> "B" [] c = "a" -> "A"
      [] c = "s" -> "S" [] c = "c" -> "C"
      [] OTHER -> c

\* The text as it is written, letter case kept.
AsWritten(s) == s

Upper(s) == [i \in 1..Len(s) |-> UpperChar(s[i])]

\* `needle in s` for strings.
Contains(s, needle) ==
    \E i \in 0..(Len(s) - Len(needle)) :
        \A j \in 1..Len(needle) : s[i + j] = needle[j]

PREMIUM == <<"P", "R", "E", "M", "I", "U", "M">>

\* The restricted industry codes, {"7995", "9999"}.
RestrictedIndustries == {"7995", "9999"}

\* Every reason code a response sorts, in Python's string order.
LexOrder == <<"BLURRY", "BUSINESS_ADDRESS", "BUSINESS_TAX_ID", "EXPIRED",
              "OWNERSHIP_PERCENTAGE", "OWNERS_MISSING", "OWNER_DOB",
              "OWNER_ID_NUMBER", "USAGE_PROFILE_MISSING">>

\* sorted(set(codes))
SortedSet(codes) == SelectSeq(LexOrder, LAMBDA c : c \in Range(codes))

\* A UUID is a number; its leading hex digits (str(id).replace("-", "")[:10])
\* are the number without its last digit of base IdTail.
IdTail == 4
LeadingDigits(id) == id \div IdTail

-----------------------------------------------------------------------------
(***************************************************************************)
(* src/checking_api.py                                                     *)
(***************************************************************************)
NotFound(db, detail) == Result(db, 404, [detail |-> detail])

\* The lookup of an application refusing a decided one.
HasUndecidedCheckingApplication(db, application_id) ==
    /\ application_id \in DOMAIN db.checking_applications
    /\ db.checking_applications[application_id].status # "DECIDED"

\* require_checking_application: the application exists.
HasCheckingApplication(db, application_id) ==
    application_id \in DOMAIN db.checking_applications

\* app_obj.owners / documents / accounts: the child rows of an application.
OwnersOf(db, application_id) ==
    SelectSeq(db.checking_owners,
              LAMBDA o : o.checking_application_id = application_id)

DocumentsOf(db, application_id) ==
    SelectSeq(db.checking_documents,
              LAMBDA d : d.checking_application_id = application_id)

AccountIdsOf(db, application_id) ==
    RowsWhere(db.checking_accounts, "checking_application_id",
              application_id, 1)

\* `not app_obj.usage_profile`: NULL or the empty JSON object.
NoUsageProfile(app_obj) ==
    app_obj.usage_profile = None \/ DOMAIN Val(app_obj.usage_profile) = {}

\* The application as the lookup answers it: its columns, status included,
\* its business and its owners.
build_application_data(db, application_id) ==
    LET app_obj == db.checking_applications[application_id]
        owners == OwnersOf(db, application_id)
    IN [application_id |-> application_id,
        business_id |-> app_obj.business_id,
        status |-> app_obj.status,
        business |-> db.businesses[app_obj.business_id],
        owners |-> [i \in 1..Len(owners) |->
                       [owner_id |-> owners[i].id,
                        dob |-> owners[i].dob,
                        national_id |-> owners[i].national_id,
                        ownership_percentage |-> owners[i].ownership_percentage]],
        usage_profile |-> IF NoUsageProfile(app_obj) THEN None
                          ELSE app_obj.usage_profile]

\* reference is unique: at most one application has the one requested.
get_application_by_reference(db, reference) ==
    LET found == {id \in DOMAIN db.checking_applications :
                     db.checking_applications[id].reference = reference}
    IN IF found = {}
       THEN NotFound(db, "Application with given reference not found")
       ELSE Result(db, 200,
                   [application |->
                        build_application_data(db, CHOOSE id \in found : TRUE)])

\* The codes of the first owner alone.
OwnerMissingOfFirst(owners) ==
    LET o == Head(owners)
    IN (IF o.dob = None THEN <<"OWNER_DOB">> ELSE <<>>)
       \o (IF Falsy(o.national_id) THEN <<"OWNER_ID_NUMBER">> ELSE <<>>)
       \o (IF o.ownership_percentage = None
           THEN <<"OWNERSHIP_PERCENTAGE">> ELSE <<>>)

\* The codes the owners contribute to the completeness list, owner by owner.
RECURSIVE OwnerMissing(_)
OwnerMissing(owners) ==
    IF owners = <<>> THEN <<>>
    ELSE LET o == Head(owners)
         IN (IF o.dob = None THEN <<"OWNER_DOB">> ELSE <<>>)
            \o (IF Falsy(o.national_id) THEN <<"OWNER_ID_NUMBER">> ELSE <<>>)
            \o (IF o.ownership_percentage = None
                THEN <<"OWNERSHIP_PERCENTAGE">> ELSE <<>>)
            \o OwnerMissing(Tail(owners))

evaluate_application_completeness(db, application_id) ==
    IF ~HasCheckingApplication(db, application_id)
    THEN NotFound(db, "Checking application not found")
    ELSE
    LET app_obj == db.checking_applications[application_id]
        b == db.businesses[app_obj.business_id]
        owners == OwnersOf(db, application_id)
        missing ==
            (IF Falsy(b.tax_id) THEN <<"BUSINESS_TAX_ID">> ELSE <<>>)
            \o (IF Falsy(b.address) THEN <<"BUSINESS_ADDRESS">> ELSE <<>>)
            \o (IF owners = <<>> THEN <<"OWNERS_MISSING">>
                ELSE OwnerMissing(owners))
            \o (IF NoUsageProfile(app_obj)
                THEN <<"USAGE_PROFILE_MISSING">> ELSE <<>>)
        sorted == SortedSet(missing)
        can_proceed == Len(sorted) = 0
    IN Result(db, 200,
              [can_proceed |-> can_proceed,
               missing_field_codes |-> sorted,
               comments |-> IF can_proceed THEN None
                            ELSE Some("Mandatory fields missing; cannot proceed without user interaction.")])

evaluate_product_eligibility(db, application_id, product_id) ==
    IF ~HasCheckingApplication(db, application_id)
    THEN NotFound(db, "Checking application not found")
    ELSE
    LET app_obj == db.checking_applications[application_id]
        b == db.businesses[app_obj.business_id]
        industry == b.industry_code # None
                    /\ Val(b.industry_code) \in RestrictedIndustries
        premium == /\ b.years_in_business # None
                   /\ Val(b.years_in_business) < 1
                   /\ Contains(Upper(product_id), PREMIUM)
        reason_codes ==
            (IF industry THEN <<"INDUSTRY_NOT_ALLOWED">> ELSE <<>>)
            \o (IF premium THEN <<"MIN_AGE_OF_BUSINESS_NOT_MET">> ELSE <<>>)
    IN Result(db, 200,
              [eligible |-> ~industry /\ ~premium,
               reason_codes |-> reason_codes])

\* A verification that records a failure in the status of the application.
run_business_verification_recording(db, application_id) ==
    IF ~HasCheckingApplication(db, application_id)
    THEN NotFound(db, "Checking application not found")
    ELSE
    LET app_obj == db.checking_applications[application_id]
        b == db.businesses[app_obj.business_id]
    IN IF Falsy(b.registration_number)
       THEN Result([db EXCEPT !.checking_applications[application_id].status
                                  = "VERIFICATION_FAILED"], 200,
                   [status |-> "FAILED",
                    reason_codes |-> <<"REGISTRATION_NOT_FOUND">>,
                    matched_registry_name |-> None,
                    matched_registration_number |-> None])
       ELSE Result(db, 200,
                   [status |-> "PASSED",
                    reason_codes |-> <<>>,
                    matched_registry_name |-> Some(b.legal_name),
                    matched_registration_number |-> b.registration_number])

run_business_verification(db, application_id) ==
    IF ~HasCheckingApplication(db, application_id)
    THEN NotFound(db, "Checking application not found")
    ELSE
    LET app_obj == db.checking_applications[application_id]
        b == db.businesses[app_obj.business_id]
    IN IF Falsy(b.registration_number)
       THEN Result(db, 200,
                   [status |-> "FAILED",
                    reason_codes |-> <<"REGISTRATION_NOT_FOUND">>,
                    matched_registry_name |-> None,
                    matched_registration_number |-> None])
       ELSE Result(db, 200,
                   [status |-> "PASSED",
                    reason_codes |-> <<>>,
                    matched_registry_name |-> Some(b.legal_name),
                    matched_registration_number |-> b.registration_number])

\* The verdict on one owner by the national id alone.
OwnerResultByNationalId(o) ==
    LET rc == IF Falsy(o.national_id) THEN <<"MISSING_NATIONAL_ID">> ELSE <<>>
    IN [owner_id |-> o.id,
        status |-> IF rc = <<>> THEN "PASSED" ELSE "FAILED",
        reason_codes |-> rc]

\* The verdict on one owner.
OwnerResult(o) ==
    LET rc == (IF Falsy(o.national_id) THEN <<"MISSING_NATIONAL_ID">> ELSE <<>>)
              \o (IF o.dob = None THEN <<"MISSING_DOB">> ELSE <<>>)
    IN [owner_id |-> o.id,
        status |-> IF rc = <<>> THEN "PASSED" ELSE "FAILED",
        reason_codes |-> rc]

run_owner_verification(db, application_id) ==
    IF ~HasCheckingApplication(db, application_id)
    THEN NotFound(db, "Checking application not found")
    ELSE
    LET owners == OwnersOf(db, application_id)
        results == [i \in 1..Len(owners) |-> OwnerResult(owners[i])]
    IN IF owners = <<>>
       THEN Result(db, 200, [overall_status |-> "FAILED", owners |-> <<>>])
       ELSE Result(db, 200,
                   [overall_status |->
                        IF \E i \in 1..Len(results) : results[i].status # "PASSED"
                        THEN "FAILED" ELSE "PASSED",
                    owners |-> results])

\* The document types the evaluator requires.
RequiredDocTypes == {"BUSINESS_REG_CERT", "TAX_ID_PROOF", "OWNER_ID_PROOF"}

\* The keys of {d.doc_type: d for d in documents}, in insertion order: each
\* type once, at its first occurrence.
RECURSIVE DocTypeKeys(_, _)
DocTypeKeys(docs, seen) ==
    IF docs = <<>> THEN <<>>
    ELSE LET dt == Head(docs).doc_type
         IN (IF dt \in seen THEN <<>> ELSE <<dt>>)
            \o DocTypeKeys(Tail(docs), seen \cup {dt})

\* The first document of a type instead of the last.
FirstDocOfType(docs, dt) ==
    docs[CHOOSE i \in 1..Len(docs) :
            /\ docs[i].doc_type = dt
            /\ \A j \in 1..Len(docs) : docs[j].doc_type = dt => i <= j]

\* The value the dict keeps for a type: the last document of that type.
DocOfType(docs, dt) ==
    docs[CHOOSE i \in 1..Len(docs) :
            /\ docs[i].doc_type = dt
            /\ \A j \in 1..Len(docs) : docs[j].doc_type = dt => j <= i]

\* The reason codes of the rejected documents among keys, concatenated.
RECURSIVE RejectedReasons(_, _)
RejectedReasons(docs, keys) ==
    IF keys = <<>> THEN <<>>
    ELSE LET doc == DocOfType(docs, Head(keys))
         IN (IF doc.status = "REJECTED" THEN doc.reason_codes ELSE <<>>)
            \o RejectedReasons(docs, Tail(keys))

\* missing_doc_types is built by iterating a Python set, whose order is not
\* fixed: the model keeps it as a set.
evaluate_document_set_for_application(db, application_id) ==
    IF ~HasCheckingApplication(db, application_id)
    THEN NotFound(db, "Checking application not found")
    ELSE
    LET docs == DocumentsOf(db, application_id)
        keys == DocTypeKeys(docs, {})
        missing == {d \in RequiredDocTypes : d \notin Range(keys)}
        invalid_doc_types ==
            SelectSeq(keys, LAMBDA dt : DocOfType(docs, dt).status = "REJECTED")
    IN Result(db, 200,
              [docs_ok |-> missing = {} /\ Len(invalid_doc_types) = 0,
               missing_doc_types |-> missing,
               invalid_doc_types |-> invalid_doc_types,
               reason_codes |-> SortedSet(RejectedReasons(docs, keys))])

\* float(up.get("cash_deposit_volume_per_month") or 0), up being
\* app_obj.usage_profile or {}.
CashVolume(app_obj) ==
    LET up == IF app_obj.usage_profile = None THEN <<>>
              ELSE Val(app_obj.usage_profile)
        key == "cash_deposit_volume_per_month"
    IN IF key \in DOMAIN up /\ up[key] # None THEN Val(up[key]) ELSE 0

\* The bands with a score of 70 still MEDIUM.
RiskBandAbove(risk_score) ==
    IF risk_score < 30 THEN "LOW"
    ELSE IF risk_score <= 70 THEN "MEDIUM"
    ELSE "HIGH"

RiskBand(risk_score) ==
    IF risk_score < 30 THEN "LOW"
    ELSE IF risk_score < 70 THEN "MEDIUM"
    ELSE "HIGH"

score_application_risk(db, application_id) ==
    IF ~HasCheckingApplication(db, application_id)
    THEN NotFound(db, "Checking application not found")
    ELSE
    LET app_obj == db.checking_applications[application_id]
        b == db.businesses[app_obj.business_id]
        new_business == b.years_in_business # None /\ Val(b.years_in_business) < 1
        high_cash == CashVolume(app_obj) > 100000 * Unit
        high_risk == b.industry_code # None
                     /\ Val(b.industry_code) \in RestrictedIndustries
        risk_score == 20 + (IF new_business THEN 30 ELSE 0)
                         + (IF high_cash THEN 30 ELSE 0)
                         + (IF high_risk THEN 20 ELSE 0)
        rules == (IF new_business THEN <<"NEW_BUSINESS">> ELSE <<>>)
                 \o (IF high_cash THEN <<"HIGH_CASH_VOLUME">> ELSE <<>>)
                 \o (IF high_risk THEN <<"HIGH_RISK_INDUSTRY">> ELSE <<>>)
        drivers == IF rules = <<>> THEN <<"BASELINE">> ELSE rules
        entry == [id |-> Len(db.checking_risk_scores) + 1,
                  checking_application_id |-> application_id,
                  risk_score |-> risk_score,
                  risk_band |-> RiskBand(risk_score),
                  driver_codes |-> drivers]
    IN Result([db EXCEPT !.checking_risk_scores = Append(@, entry)], 200,
              [risk_score |-> risk_score,
               risk_band |-> RiskBand(risk_score),
               driver_codes |-> drivers])

\* The response body of open_account for an account row.
OpenAccountResponse(acc) ==
    [account_id |-> acc.id,
     account_number |-> acc.account_number,
     routing_number |-> acc.routing_number,
     status |-> acc.status]

\* The account created without the status of the application being set.
OpenNewAccountKeepingStatus(db, application_id) ==
    LET acc == [id |-> Len(db.checking_accounts) + 1,
                checking_application_id |-> application_id,
                account_number |-> <<"10", LeadingDigits(application_id)>>,
                routing_number |-> "011000015",
                status |-> "ACTIVE"]
    IN Result([db EXCEPT !.checking_accounts = Append(@, acc)],
              200, OpenAccountResponse(acc))

\* The branch that creates the account: the new row and the status of the
\* application are committed together.
OpenNewAccount(db, application_id) ==
    LET acc == [id |-> Len(db.checking_accounts) + 1,
                checking_application_id |-> application_id,
                account_number |-> <<"10", LeadingDigits(application_id)>>,
                routing_number |-> "011000015",
                status |-> "ACTIVE"]
    IN Result([db EXCEPT
                  !.checking_applications[application_id].status = "DECIDED",
                  !.checking_accounts = Append(@, acc)],
              200, OpenAccountResponse(acc))

\* open_account without the lookup of an existing account.
open_account_without_lookup(db, application_id) ==
    IF ~HasCheckingApplication(db, application_id)
    THEN NotFound(db, "Checking application not found")
    ELSE OpenNewAccount(db, application_id)

\* open_account refusing an application that has no risk score yet.
open_account_when_scored(db, application_id) ==
    IF ~HasCheckingApplication(db, application_id)
    THEN NotFound(db, "Checking application not found")
    ELSE IF \A i \in 1..Len(db.checking_risk_scores) :
               db.checking_risk_scores[i].checking_application_id # application_id
    THEN Result(db, 400, [detail |-> "No risk score found"])
    ELSE IF AccountIdsOf(db, application_id) # <<>>
    THEN Result(db, 200,
                OpenAccountResponse(
                    db.checking_accounts[AccountIdsOf(db, application_id)[1]]))
    ELSE OpenNewAccount(db, application_id)

open_account_from_application(db, application_id) ==
    IF ~HasCheckingApplication(db, application_id)
    THEN NotFound(db, "Checking application not found")
    ELSE
    LET accounts == AccountIdsOf(db, application_id)
    IN IF accounts # <<>>
       THEN Result(db, 200, OpenAccountResponse(db.checking_accounts[accounts[1]]))
       ELSE OpenNewAccount(db, application_id)

\* The Notification row both APIs write.
NotificationRow(db, context_type, payload) ==
    [id |-> Len(db.notifications) + 1,
     context_type |-> context_type,
     context_id |-> payload.application_id,
     channel |-> payload.channel,
     decision |-> payload.decision,
     reason_codes |-> payload.reason_codes,
     delivery_status |-> "SENT"]

\* The notification sent once: a call that repeats a stored notification
\* answers the stored row.
send_final_decision_notification_once(db, payload) ==
    IF ~HasCheckingApplication(db, payload.application_id)
    THEN NotFound(db, "Checking application not found")
    ELSE
    LET notif == NotificationRow(db, "CHECKING_APPLICATION", payload)
        same == {i \in 1..Len(db.notifications) :
                    [db.notifications[i] EXCEPT !.id = notif.id] = notif}
    IN IF same # {}
       THEN Result(db, 200,
                   [notification_id |-> CHOOSE i \in same : TRUE,
                    delivery_status |-> "SENT"])
       ELSE Result([db EXCEPT !.notifications = Append(@, notif)], 200,
                   [notification_id |-> notif.id,
                    delivery_status |-> notif.delivery_status])

\* The notification that replaces the earlier ones of its application.
send_final_decision_notification_latest(db, payload) ==
    IF ~HasCheckingApplication(db, payload.application_id)
    THEN NotFound(db, "Checking application not found")
    ELSE
    LET kept == SelectSeq(db.notifications,
                          LAMBDA n : n.context_id # payload.application_id)
        notif == [NotificationRow(db, "CHECKING_APPLICATION", payload)
                     EXCEPT !.id = Len(kept) + 1]
    IN Result([db EXCEPT !.notifications = Append(kept, notif)], 200,
              [notification_id |-> notif.id,
               delivery_status |-> notif.delivery_status])

\* The notification that also marks its application decided.
send_final_decision_notification_deciding(db, payload) ==
    IF ~HasCheckingApplication(db, payload.application_id)
    THEN NotFound(db, "Checking application not found")
    ELSE
    LET notif == NotificationRow(db, "CHECKING_APPLICATION", payload)
    IN Result([db EXCEPT
                  !.checking_applications[payload.application_id].status =
                      "DECIDED",
                  !.notifications = Append(@, notif)], 200,
              [notification_id |-> notif.id,
               delivery_status |-> notif.delivery_status])

send_final_decision_notification(db, payload) ==
    IF ~HasCheckingApplication(db, payload.application_id)
    THEN NotFound(db, "Checking application not found")
    ELSE
    LET notif == NotificationRow(db, "CHECKING_APPLICATION", payload)
    IN Result([db EXCEPT !.notifications = Append(@, notif)], 200,
              [notification_id |-> notif.id,
               delivery_status |-> notif.delivery_status])

-----------------------------------------------------------------------------
(***************************************************************************)
(* src/lending_api.py                                                      *)
(***************************************************************************)
\* An exception no handler catches (an AttributeError on a missing business,
\* an IntegrityError at commit, a response that fails validation): the
\* framework answers 500.
ServerError(db) == Result(db, 500, [detail |-> "Internal Server Error"])

\* require_lending_application: the application exists.
HasLendingApplication(db, app_id) == app_id \in DOMAIN db.lending_applications

\* The application as the lookup answers it.  c.id, b.id and ca.id are read
\* without a check: it is built for an application that has the three.
build_lending_application_full(db, app_id) ==
    LET app_obj == db.lending_applications[app_id]
        b == db.businesses[Val(app_obj.business_id)]
    IN [lending_application_id |-> app_id,
        reference |-> app_obj.reference,
        status |-> app_obj.status,
        customer |-> [customer_id |-> Val(app_obj.customer_id)],
        business |-> [business_id |-> Val(app_obj.business_id),
                      legal_name |-> b.legal_name,
                      industry_code |-> b.industry_code,
                      years_in_business |-> b.years_in_business],
        checking_account |->
            [checking_account_id |-> Val(app_obj.checking_account_id),
             is_primary_operating_account |-> TRUE],
        lending_product |-> [product_type |-> app_obj.product_type,
                             requested_amount |-> app_obj.requested_amount]]

\* An application without customer, business or checking account makes the
\* snapshot raise an AttributeError.
get_lending_application_by_reference(db, reference) ==
    LET found == {id \in DOMAIN db.lending_applications :
                     db.lending_applications[id].reference = reference}
        app_id == CHOOSE id \in found : TRUE
    IN IF found = {}
       THEN NotFound(db, "Lending application with given reference not found")
       ELSE IF \/ db.lending_applications[app_id].customer_id = None
               \/ db.lending_applications[app_id].business_id = None
               \/ db.lending_applications[app_id].checking_account_id = None
       THEN ServerError(db)
       ELSE Result(db, 200,
                   [application |-> build_lending_application_full(db, app_id)])

\* The first transaction summary of an application, or 0.
EarliestSummary(db, app_id) ==
    LET ix == {i \in 1..Len(db.lending_transaction_summaries) :
                  db.lending_transaction_summaries[i].lending_application_id
                      = app_id}
    IN IF ix = {} THEN 0 ELSE CHOOSE i \in ix : \A j \in ix : i <= j

\* The latest transaction summary of an application (by created_at), or 0.
LatestSummary(db, app_id) ==
    LatestWhere(db.lending_transaction_summaries, "lending_application_id", app_id)

\* The credit report of an application that was stored last, or 0.
LastStoredReport(db, app_id) ==
    LatestWhere(db.business_credit_reports, "lending_application_id", app_id)

\* The latest credit report of an application (by last_updated_at), or 0.
LatestReport(db, app_id) ==
    LET t == db.business_credit_reports
        ix == {i \in 1..Len(t) : t[i].lending_application_id = app_id}
    IN IF ix = {} THEN 0
       ELSE CHOOSE i \in ix :
                \A j \in ix : t[j].last_updated_at <= t[i].last_updated_at

\* The first underwriting of an application instead of the latest, or 0.
EarliestUnderwriting(db, app_id) ==
    LET ix == {i \in 1..Len(db.lending_underwriting) :
                  db.lending_underwriting[i].lending_application_id = app_id}
    IN IF ix = {} THEN 0 ELSE CHOOSE i \in ix : \A j \in ix : i <= j

\* The latest underwriting row of the table, whatever its application.
LatestUnderwritingOfAny(db, app_id) ==
    Len(db.lending_underwriting)

\* The latest underwriting row of an application (by created_at), or 0.
LatestUnderwriting(db, app_id) ==
    LatestWhere(db.lending_underwriting, "lending_application_id", app_id)

\* The first offer an application was made instead of the latest, or 0.
EarliestOffer(db, app_id) ==
    LET ix == {i \in 1..Len(db.lending_offers) :
                  db.lending_offers[i].lending_application_id = app_id}
    IN IF ix = {} THEN 0 ELSE CHOOSE i \in ix : \A j \in ix : i <= j

\* The latest offer of the table, whatever its application.
LatestOfferOfAny(db, app_id) ==
    Len(db.lending_offers)

\* The latest offer of an application (by created_at), or 0.
LatestOffer(db, app_id) ==
    LatestWhere(db.lending_offers, "lending_application_id", app_id)

\* The facilities looked up by their own id instead of their application's.
FacilityIdsById(db, app_id) ==
    RowsWhere(db.credit_facilities, "id", app_id, 1)

FacilityIdsOf(db, app_id) ==
    RowsWhere(db.credit_facilities, "lending_application_id", app_id, 1)

\* Without summary the response takes the checking account of the
\* application, and its schema requires one: an application that names no
\* account fails the validation of the response.
get_checking_transaction_summary_for_lending(db, app_id) ==
    IF ~HasLendingApplication(db, app_id)
    THEN NotFound(db, "Lending application not found")
    ELSE
    LET i == LatestSummary(db, app_id)
        app_obj == db.lending_applications[app_id]
    IN IF i = 0
       THEN IF app_obj.checking_account_id = None
            THEN ServerError(db)
            ELSE Result(db, 200,
                        [checking_account_id |-> Val(app_obj.checking_account_id),
                         avg_monthly_revenue |-> None])
       ELSE Result(db, 200,
                   [checking_account_id |->
                        db.lending_transaction_summaries[i].checking_account_id,
                    avg_monthly_revenue |->
                        db.lending_transaction_summaries[i].avg_monthly_revenue])

\* The response body for a credit report row.
BusinessCreditReportResponse(report) ==
    [report_id |-> report.id,
     bureau |-> report.bureau,
     score |-> report.score,
     last_updated_at |-> report.last_updated_at]

\* datetime.utcnow(): later than every stored timestamp.
Now(db) ==
    LET t == db.business_credit_reports
    IN IF t = <<>> THEN 1
       ELSE 1 + (CHOOSE m \in {t[i].last_updated_at : i \in 1..Len(t)} :
                    \A i \in 1..Len(t) : t[i].last_updated_at <= m)

pull_business_credit_report(db, app_id, bureau) ==
    IF ~HasLendingApplication(db, app_id)
    THEN NotFound(db, "Lending application not found")
    ELSE
    LET t == db.business_credit_reports
        ix == {i \in 1..Len(t) : /\ t[i].lending_application_id = app_id
                                 /\ t[i].bureau = bureau}
        report == [id |-> Len(t) + 1,
                   lending_application_id |-> app_id,
                   bureau |-> bureau,
                   score |-> Some(80),
                   last_updated_at |-> Now(db)]
    IN IF ix # {}
       THEN Result(db, 200,
                   BusinessCreditReportResponse(
                       t[CHOOSE i \in ix : \A j \in ix :
                             t[j].last_updated_at <= t[i].last_updated_at]))
       ELSE Result([db EXCEPT !.business_credit_reports = Append(@, report)],
                   200, BusinessCreditReportResponse(report))

get_latest_business_credit_report(db, app_id) ==
    IF ~HasLendingApplication(db, app_id)
    THEN NotFound(db, "Lending application not found")
    ELSE
    LET i == LatestReport(db, app_id)
    IN IF i = 0 THEN Result(db, 200, [report |-> None])
       ELSE Result(db, 200,
                   BusinessCreditReportResponse(db.business_credit_reports[i]))

evaluate_lending_policy_eligibility(db, app_id) ==
    IF ~HasLendingApplication(db, app_id)
    THEN NotFound(db, "Lending application not found")
    ELSE
    LET app_obj == db.lending_applications[app_id]
        requested == IF app_obj.requested_amount # None
                     THEN Val(app_obj.requested_amount) ELSE 0
        i == LatestReport(db, app_id)
    IN IF app_obj.business_id = None THEN ServerError(db)
       ELSE
       LET b == db.businesses[Val(app_obj.business_id)]
           tenure == /\ b.years_in_business # None
                     /\ Val(b.years_in_business) < 1
                     /\ requested > 50000 * Unit
           low == /\ i # 0
                  /\ db.business_credit_reports[i].score # None
                  /\ Val(db.business_credit_reports[i].score) < 50
       IN Result(db, 200,
                 [eligible |-> ~tenure /\ ~low,
                  reason_codes |->
                     (IF tenure
                      THEN <<"INSUFFICIENT_TENURE_FOR_REQUESTED_AMOUNT">>
                      ELSE <<>>)
                     \o (IF low THEN <<"LOW_BUREAU_SCORE">> ELSE <<>>)])

\* The scoring of run_lending_underwriting and the row it commits, for an
\* application that has a business.
Underwrite(db, app_id) ==
    LET app_obj == db.lending_applications[app_id]
        b == db.businesses[Val(app_obj.business_id)]
        s == LatestSummary(db, app_id)
        r == LatestReport(db, app_id)
        avg_rev ==
            IF s # 0 /\ db.lending_transaction_summaries[s].avg_monthly_revenue # None
            THEN Val(db.lending_transaction_summaries[s].avg_monthly_revenue)
            ELSE 0
        score == IF r # 0 /\ db.business_credit_reports[r].score # None
                 THEN Val(db.business_credit_reports[r].score) ELSE 75
        rec_max_exposure == IF avg_rev > 0 THEN avg_rev * 2 ELSE 50000 * Unit
        risk_grade == IF score >= 80 THEN "A" ELSE IF score < 60 THEN "C" ELSE "B"
        pd_estimate == IF score >= 80 THEN 2 ELSE IF score < 60 THEN 8 ELSE 4
        rules ==
            (IF score >= 80 THEN <<"GOOD_BUREAU_SCORE">>
             ELSE IF score < 60 THEN <<"LOW_BUREAU_SCORE">> ELSE <<>>)
            \o (IF b.years_in_business # None /\ Val(b.years_in_business) < 1
                THEN <<"SHORT_OPERATING_HISTORY">> ELSE <<>>)
        drivers == IF rules = <<>> THEN <<"BASELINE">> ELSE rules
        uw == [id |-> Len(db.lending_underwriting) + 1,
               lending_application_id |-> app_id,
               risk_grade |-> risk_grade,
               pd_estimate |-> pd_estimate,
               lgd_estimate |-> 45,
               recommended_max_exposure |-> rec_max_exposure,
               affordability_band |-> "MEDIUM",
               key_risk_drivers |-> drivers,
               dscr |-> 180,
               debt_to_revenue_ratio |-> 25]
    IN Result([db EXCEPT !.lending_underwriting = Append(@, uw)], 200,
              [underwriting_id |-> uw.id,
               risk_grade |-> risk_grade,
               pd_estimate |-> pd_estimate,
               lgd_estimate |-> 45,
               recommended_max_exposure |-> rec_max_exposure,
               affordability_band |-> "MEDIUM",
               key_risk_drivers |-> drivers,
               supporting_metrics |->
                   [dscr |-> 180, debt_to_revenue_ratio |-> 25]])

\* Underwriting that keeps the row an application already has instead of
\* adding one.
run_lending_underwriting_once(db, app_id) ==
    IF ~HasLendingApplication(db, app_id)
    THEN NotFound(db, "Lending application not found")
    ELSE IF db.lending_applications[app_id].business_id = None
    THEN ServerError(db)
    ELSE IF \E i \in 1..Len(db.lending_underwriting) :
               db.lending_underwriting[i].lending_application_id = app_id
    THEN Result(db, 200, Underwrite(db, app_id).body)
    ELSE Underwrite(db, app_id)

\* Underwriting refusing an application that has no transaction summary.
run_lending_underwriting_after_summary(db, app_id) ==
    IF ~HasLendingApplication(db, app_id)
    THEN NotFound(db, "Lending application not found")
    ELSE IF db.lending_applications[app_id].business_id = None
    THEN ServerError(db)
    ELSE IF LatestSummary(db, app_id) = 0
    THEN Result(db, 400, [detail |-> "No transaction summary found"])
    ELSE Underwrite(db, app_id)

\* b.years_in_business is read of app_obj.business without a check: an
\* application without a business raises before any row is added.
run_lending_underwriting(db, app_id) ==
    IF ~HasLendingApplication(db, app_id)
    THEN NotFound(db, "Lending application not found")
    ELSE IF db.lending_applications[app_id].business_id = None
    THEN ServerError(db)
    ELSE Underwrite(db, app_id)

\* f"OFFER-LOC-{int(limit)}": the code keeps the whole units of the limit.
OfferCode(limit) == <<"OFFER-LOC", limit \div Unit>>

\* offer_code without its unique constraint.
OfferCodeNeverTaken(db, offer_code) == FALSE

\* lending_offers.offer_code is declared unique: the commit of a row whose
\* code is already stored raises an IntegrityError.
OfferCodeTaken(db, offer_code) ==
    \E i \in 1..Len(db.lending_offers) :
        db.lending_offers[i].offer_code = offer_code

\* The Offer schema of the responses.
OfferSnapshot(offer) ==
    [offer_id |-> offer.id,
     product_type |-> offer.product_type,
     credit_limit |-> offer.credit_limit,
     min_credit_limit |-> offer.min_credit_limit,
     max_credit_limit |-> offer.max_credit_limit,
     apr |-> offer.apr,
     annual_fee |-> offer.annual_fee,
     origination_fee |-> offer.origination_fee,
     tenor_months |-> offer.tenor_months,
     repayment_terms |-> offer.repayment_terms,
     collateral_required |-> offer.collateral_required]

generate_credit_line_offers(db, app_id) ==
    IF ~HasLendingApplication(db, app_id)
    THEN NotFound(db, "Lending application not found")
    ELSE
    LET u == LatestUnderwriting(db, app_id)
    IN IF u = 0
       THEN Result(db, 400, [detail |-> "No underwriting result found"])
       ELSE
       LET uw == db.lending_underwriting[u]
           rec == IF uw.recommended_max_exposure = 0 THEN 50000 * Unit
                  ELSE uw.recommended_max_exposure
           limit == (rec * 8) \div 10
           offer == [id |-> Len(db.lending_offers) + 1,
                     lending_application_id |-> app_id,
                     offer_code |-> OfferCode(limit),
                     product_type |-> "REVOLVING_LOC",
                     credit_limit |-> limit,
                     min_credit_limit |-> (limit * 5) \div 10,
                     max_credit_limit |-> rec,
                     apr |-> 14,
                     annual_fee |-> 0,
                     origination_fee |-> 1,
                     tenor_months |-> None,
                     repayment_terms |-> "REVOLVING",
                     collateral_required |-> FALSE]
       IN IF OfferCodeTaken(db, offer.offer_code)
          THEN ServerError(db)
          ELSE Result([db EXCEPT !.lending_offers = Append(@, offer)], 200,
                      [offers |-> <<OfferSnapshot(offer)>>])

\* Selection by the offer id alone, whatever application the offer is of.
select_credit_offer_of_any(db, app_id, offer_id) ==
    IF ~HasLendingApplication(db, app_id)
    THEN NotFound(db, "Lending application not found")
    ELSE
    IF offer_id \in 1..Len(db.lending_offers)
    THEN Result(db, 200,
                [status |-> "OFFER_SELECTED",
                 selected_offer_snapshot |->
                     OfferSnapshot(db.lending_offers[offer_id])])
    ELSE NotFound(db, "Offer not found for this application")

select_credit_offer_for_application(db, app_id, offer_id) ==
    IF ~HasLendingApplication(db, app_id)
    THEN NotFound(db, "Lending application not found")
    ELSE
    IF \E i \in 1..Len(db.lending_offers) :
           /\ db.lending_offers[i].id = offer_id
           /\ db.lending_offers[i].lending_application_id = app_id
    THEN Result(db, 200,
                [status |-> "OFFER_SELECTED",
                 selected_offer_snapshot |->
                     OfferSnapshot(db.lending_offers[offer_id])])
    ELSE NotFound(db, "Offer not found for this application")

\* The response body of open_credit_facility for a facility row.
OpenCreditFacilityResponse(facility) ==
    [facility_id |-> facility.id,
     facility_type |-> facility.facility_type,
     customer_id |-> Val(facility.customer_id),
     business_id |-> Val(facility.business_id),
     account_number |-> facility.account_number,
     credit_limit |-> facility.credit_limit,
     apr |-> facility.apr,
     status |-> facility.status,
     billing_cycle_day |-> facility.billing_cycle_day,
     drawdown_terms |-> facility.drawdown_terms]

\* The response schema requires customer_id and business_id: a row without
\* one of them fails the validation of the response.
FacilityResponseValid(facility) ==
    facility.customer_id # None /\ facility.business_id # None

\* The facility built of an offer of the application.
NewFacility(db, app_id, o) ==
    LET app_obj == db.lending_applications[app_id]
        offer == db.lending_offers[o]
    IN [id |-> Len(db.credit_facilities) + 1,
        lending_application_id |-> app_id,
        customer_id |-> app_obj.customer_id,
        business_id |-> app_obj.business_id,
        facility_type |-> offer.product_type,
        account_number |-> <<"20", LeadingDigits(app_id)>>,
        credit_limit |-> offer.credit_limit,
        apr |-> offer.apr,
        status |-> "ACTIVE",
        billing_cycle_day |-> 15,
        drawdown_terms |-> "REVOLVING_NET_30"]

open_credit_facility_from_lending_application(db, app_id) ==
    IF ~HasLendingApplication(db, app_id)
    THEN NotFound(db, "Lending application not found")
    ELSE
    LET app_obj == db.lending_applications[app_id]
        facilities == FacilityIdsOf(db, app_id)
        o == LatestOffer(db, app_id)
    IN IF facilities # <<>>
       THEN LET existing == db.credit_facilities[facilities[1]]
            IN IF FacilityResponseValid(existing)
               THEN Result(db, 200, OpenCreditFacilityResponse(existing))
               ELSE ServerError(db)
       ELSE
       IF o = 0
       THEN Result(db, 400, [detail |-> "No offer available to open facility"])
       ELSE
       LET facility == NewFacility(db, app_id, o)
           committed == [db EXCEPT !.credit_facilities = Append(@, facility)]
       IN IF FacilityResponseValid(facility)
          THEN Result(committed, 200, OpenCreditFacilityResponse(facility))
          ELSE ServerError(committed)

\* The notification written without looking the application up.
send_lending_decision_notification_unchecked(db, payload) ==
    LET notif == NotificationRow(db, "LENDING_APPLICATION", payload)
    IN Result([db EXCEPT !.notifications = Append(@, notif)], 200,
              [notification_id |-> notif.id,
               delivery_status |-> notif.delivery_status])

send_lending_decision_notification(db, payload) ==
    IF ~HasLendingApplication(db, payload.application_id)
    THEN NotFound(db, "Lending application not found")
    ELSE
    LET notif == NotificationRow(db, "LENDING_APPLICATION", payload)
    IN Result([db EXCEPT !.notifications = Append(@, notif)], 200,
              [notification_id |-> notif.id,
               delivery_status |-> notif.delivery_status])

-----------------------------------------------------------------------------
(***************************************************************************)
(* The rows the applications start with.  No endpoint of the two APIs      *)
(* creates a business, an application, an owner or a document: they are in *)
(* the store before the pipeline runs.                                     *)
(***************************************************************************)
CheckingIds == IdTail..(IdTail + NumChecking - 1)
LendingIds == IdTail..(IdTail + NumLending - 1)

\* The ids a request may name: the stored ones and one that matches no row.
CheckingRequestIds == IdTail..(IdTail + NumChecking)
LendingRequestIds == IdTail..(IdTail + NumLending)

\* Business 1 is established and fully described; business 2 is new, works
\* in a restricted industry and lacks its tax id, address and registration.
SeedBusinesses ==
    <<[legal_name |-> "Acme LLC", tax_id |-> Some("12-3456789"),
       address |-> Some("1 Main St"), registration_number |-> Some("REG-1"),
       industry_code |-> Some("1234"), years_in_business |-> Some(5)],
      [legal_name |-> "Lucky Games", tax_id |-> None,
       address |-> Some(""), registration_number |-> None,
       industry_code |-> Some("9999"), years_in_business |-> Some(0)]>>

Owner(dob, national_id, ownership_percentage) ==
    [dob |-> dob, national_id |-> national_id,
     ownership_percentage |-> ownership_percentage]

Document(doc_type, status, reason_codes) ==
    [doc_type |-> doc_type, status |-> status, reason_codes |-> reason_codes]

\* What a checking application starts with: every check passes; every check
\* fails; a mix, with a rejected document of a type that is not required and
\* a status other than the column default (the status is a free-form string).
CheckingSeeds ==
    <<[business_id |-> 1, status |-> "RECEIVED",
       usage_profile |->
           Some([cash_deposit_volume_per_month |-> Some(20000 * Unit)]),
       owners |-> <<Owner(Some("1980-01-01"), Some("ID-1"), Some(100))>>,
       documents |-> <<Document("BUSINESS_REG_CERT", "VALIDATED", <<>>),
                       Document("TAX_ID_PROOF", "UPLOADED", <<>>),
                       Document("OWNER_ID_PROOF", "VALIDATED", <<>>)>>],
      [business_id |-> 2, status |-> "RECEIVED",
       usage_profile |-> None,
       owners |-> <<>>,
       documents |-> <<>>],
      [business_id |-> 2, status |-> "IN_REVIEW",
       usage_profile |->
           Some([cash_deposit_volume_per_month |-> Some(150000 * Unit)]),
       owners |-> <<Owner(Some("1980-01-01"), Some("ID-1"), Some(60)),
                    Owner(None, Some(""), None)>>,
       documents |-> <<Document("BUSINESS_REG_CERT", "REJECTED", <<"EXPIRED">>),
                       Document("TAX_ID_PROOF", "VALIDATED", <<>>),
                       Document("BANK_STATEMENT", "REJECTED", <<"BLURRY">>)>>]>>

\* What a lending application starts with: a customer and a business, as
\* the intake leaves it; or no customer; or no business (both columns are
\* nullable).
LendingSeeds ==
    <<[customer_id |-> Some("CUST-1"), business_id |-> Some(1),
       requested_amount |-> Some(20000 * Unit), status |-> "RECEIVED"],
      [customer_id |-> Some("CUST-2"), business_id |-> Some(2),
       requested_amount |-> Some(60000 * Unit), status |-> "IN_REVIEW"],
      [customer_id |-> None, business_id |-> Some(1),
       requested_amount |-> None, status |-> "RECEIVED"],
      [customer_id |-> Some("CUST-1"), business_id |-> None,
       requested_amount |-> Some(60000 * Unit), status |-> "RECEIVED"]>>

\* The seeds of the stored applications: the k-th application takes the
\* seed k places after the first one's, around the list.
Seeding(seeds, ids, first) ==
    [id \in ids |-> seeds[((first + id - IdTail) % Len(seeds)) + 1]]

\* The child rows of the seeds, application by application in id order.
RECURSIVE SeedRows(_, _, _, _)
SeedRows(seed, ids, field, n) ==
    IF ids = {} THEN <<>>
    ELSE LET id == CHOOSE i \in ids : \A j \in ids : i <= j
             rows == seed[id][field]
         IN [k \in 1..Len(rows) |-> [row |-> rows[k], parent |-> id, id |-> n + k]]
            \o SeedRows(seed, ids \ {id}, field, n + Len(rows))

\* The reference of an application: a text of its own, unique in its table.
Reference(prefix, id) == <<prefix, id>>

InitStore(cids, cseed, lids, lseed, accounts) ==
    /\ businesses = SeedBusinesses
    /\ checking_applications =
          [id \in cids |->
              [reference |-> Reference("CHK", id),
               business_id |-> cseed[id].business_id,
               status |-> cseed[id].status,
               usage_profile |-> cseed[id].usage_profile]]
    /\ checking_owners =
          LET rows == SeedRows(cseed, cids, "owners", 0)
          IN [k \in 1..Len(rows) |->
                 [id |-> rows[k].id,
                  checking_application_id |-> rows[k].parent,
                  dob |-> rows[k].row.dob,
                  national_id |-> rows[k].row.national_id,
                  ownership_percentage |-> rows[k].row.ownership_percentage]]
    /\ checking_documents =
          LET rows == SeedRows(cseed, cids, "documents", 0)
          IN [k \in 1..Len(rows) |->
                 [id |-> rows[k].id,
                  checking_application_id |-> rows[k].parent,
                  doc_type |-> rows[k].row.doc_type,
                  status |-> rows[k].row.status,
                  reason_codes |-> rows[k].row.reason_codes]]
    /\ checking_risk_scores = <<>>
    /\ checking_accounts = accounts
    /\ notifications = <<>>
    /\ lending_applications =
          [id \in lids |->
              [reference |-> Reference("LND", id),
               customer_id |-> lseed[id].customer_id,
               business_id |-> lseed[id].business_id,
               checking_account_id |->
                   IF accounts = <<>> THEN None ELSE Some(accounts[1].id),
               requested_amount |-> lseed[id].requested_amount,
               product_type |-> "REVOLVING_LOC",
               status |-> lseed[id].status]]
    /\ lending_transaction_summaries = <<>>
    /\ business_credit_reports = <<>>
    /\ lending_underwriting = <<>>
    /\ lending_offers = <<>>
    /\ credit_facilities = <<>>
    /\ pending = [c \in Callers |-> None]

\* A customer onboarded before the lending application was taken in: the
\* checking application is decided and has its account, which the lending
\* application names.
OnboardedAccount ==
    [id |-> 1,
     checking_application_id |-> IdTail,
     account_number |-> <<"10", LeadingDigits(IdTail)>>,
     routing_number |-> "011000015",
     status |-> "ACTIVE"]

\* The store holds the applications of the checking API, or those of the
\* lending API, or one application of each, the lending one taken in before
\* or after the checking account was opened.
Init ==
    \/ \E c \in 1..Len(CheckingSeeds) :
           InitStore(CheckingIds, Seeding(CheckingSeeds, CheckingIds, c - 1),
                     {}, <<>>, <<>>)
    \/ \E l \in 1..Len(LendingSeeds) :
           InitStore({}, <<>>,
                     LendingIds, Seeding(LendingSeeds, LendingIds, l - 1), <<>>)
    \/ \E c \in 1..Len(CheckingSeeds), l \in 1..Len(LendingSeeds) :
           InitStore({IdTail}, Seeding(CheckingSeeds, {IdTail}, c - 1),
                     {IdTail}, Seeding(LendingSeeds, {IdTail}, l - 1), <<>>)
    \/ InitStore({IdTail},
                 [id \in {IdTail} |-> [CheckingSeeds[1] EXCEPT !.status = "DECIDED"]],
                 {IdTail}, Seeding(LendingSeeds, {IdTail}, 0),
                 <<OnboardedAccount>>)

-----------------------------------------------------------------------------
(***************************************************************************)
(* Requests.                                                               *)
(***************************************************************************)
ProductIds == {<<"B", "A", "S", "I", "C">>,
               <<"P", "R", "E", "M", "I", "U", "M", "_", "C", "H", "E", "C",
                 "K", "I", "N", "G">>,
               <<"P", "r", "e", "m", "i", "u", "m">>,
               <<"b", "a", "s", "i", "c", "_", "p", "r", "e", "m", "i", "u",
                 "m">>}

Bureaus == {"EXPERIAN"}

\* avg_monthly_revenue of an ingested summary, in hundredths: 1000.00, and
\* 25000.25, whose offer has the whole units of the offer made without any
\* summary (40000) and another limit (40000.40).
AvgRevenues == {Some(100000), Some(2500025)}

NotificationPayloads(application_id) ==
    {[application_id |-> application_id, channel |-> "EMAIL",
      decision |-> "APPROVED", reason_codes |-> <<>>],
     [application_id |-> application_id, channel |-> "SMS",
      decision |-> "REJECTED", reason_codes |-> <<"LOW_BUREAU_SCORE">>]}

\* The rows the run has written, all tables together.
TotalRows(db) ==
    Len(db.checking_risk_scores) + Len(db.checking_accounts)
    + Len(db.notifications) + Len(db.lending_transaction_summaries)
    + Len(db.business_credit_reports) + Len(db.lending_underwriting)
    + Len(db.lending_offers) + Len(db.credit_facilities)

\* One request served: the store becomes the one the handler left.
Serve(r) ==
    /\ TotalRows(r.db) <= MaxRows
    /\ businesses' = r.db.businesses
    /\ checking_applications' = r.db.checking_applications
    /\ checking_owners' = r.db.checking_owners
    /\ checking_documents' = r.db.checking_documents
    /\ checking_risk_scores' = r.db.checking_risk_scores
    /\ checking_accounts' = r.db.checking_accounts
    /\ notifications' = r.db.notifications
    /\ lending_applications' = r.db.lending_applications
    /\ lending_transaction_summaries' = r.db.lending_transaction_summaries
    /\ business_credit_reports' = r.db.business_credit_reports
    /\ lending_underwriting' = r.db.lending_underwriting
    /\ lending_offers' = r.db.lending_offers
    /\ credit_facilities' = r.db.credit_facilities
    /\ pending' = pending

(***************************************************************************)
(* Actions of the checking API.                                            *)
(***************************************************************************)
\* The references a lookup may name: those of the ids a request may name.
GetApplicationByReference ==
    \E id \in CheckingRequestIds :
        Serve(get_application_by_reference(DB, Reference("CHK", id)))

EvaluateCompleteness ==
    \E id \in CheckingRequestIds :
        Serve(evaluate_application_completeness(DB, id))

EvaluateProductEligibility ==
    \E id \in CheckingRequestIds, product_id \in ProductIds :
        Serve(evaluate_product_eligibility(DB, id, product_id))

RunBusinessVerification ==
    \E id \in CheckingRequestIds :
        Serve(run_business_verification(DB, id))

RunOwnerVerification ==
    \E id \in CheckingRequestIds :
        Serve(run_owner_verification(DB, id))

EvaluateDocuments ==
    \E id \in CheckingRequestIds :
        Serve(evaluate_document_set_for_application(DB, id))

ScoreRisk ==
    \E id \in CheckingRequestIds :
        /\ Len(checking_risk_scores) < MaxRiskScores
        /\ Serve(score_application_risk(DB, id))

OpenAccount ==
    \E id \in CheckingRequestIds :
        Serve(open_account_from_application(DB, id))

SendFinalDecisionNotification ==
    \E id \in CheckingRequestIds : \E payload \in NotificationPayloads(id) :
        /\ Len(notifications) < MaxNotifications
        /\ Serve(send_final_decision_notification(DB, payload))

(***************************************************************************)
(* Actions of the lending API.                                             *)
(***************************************************************************)
\* The transaction summaries are loaded into the store from outside the two
\* APIs: a new summary row for a stored application, over a stored checking
\* account (the one the application names, when it names one).
IngestTransactionSummary ==
    \E id \in DOMAIN lending_applications, avg \in AvgRevenues,
       account \in 1..Len(checking_accounts) :
        /\ lending_applications[id].checking_account_id \in {None, Some(account)}
        /\ Len(lending_transaction_summaries) < MaxSummaries
        /\ TotalRows(DB) < MaxRows
        /\ lending_transaction_summaries' =
              Append(lending_transaction_summaries,
                     [id |-> Len(lending_transaction_summaries) + 1,
                      lending_application_id |-> id,
                      checking_account_id |-> account,
                      avg_monthly_revenue |-> avg])
        /\ UNCHANGED <<businesses, checking_applications, checking_owners,
                       checking_documents, checking_risk_scores,
                       checking_accounts, notifications, lending_applications,
                       business_credit_reports, lending_underwriting,
                       lending_offers, credit_facilities, pending>>

GetLendingApplicationByReference ==
    \E id \in LendingRequestIds :
        Serve(get_lending_application_by_reference(DB, Reference("LND", id)))

GetCheckingTransactionSummary ==
    \E id \in LendingRequestIds :
        Serve(get_checking_transaction_summary_for_lending(DB, id))

PullBusinessCreditReport ==
    \E id \in LendingRequestIds, bureau \in Bureaus :
        Serve(pull_business_credit_report(DB, id, bureau))

GetLatestBusinessCreditReport ==
    \E id \in LendingRequestIds :
        Serve(get_latest_business_credit_report(DB, id))

EvaluateLendingPolicyEligibility ==
    \E id \in LendingRequestIds :
        Serve(evaluate_lending_policy_eligibility(DB, id))

RunLendingUnderwriting ==
    \E id \in LendingRequestIds :
        /\ Len(lending_underwriting) < MaxUnderwritings
        /\ Serve(run_lending_underwriting(DB, id))

GenerateCreditLineOffers ==
    \E id \in LendingRequestIds :
        /\ Len(lending_offers) < MaxOffers
        /\ Serve(generate_credit_line_offers(DB, id))

SelectCreditOffer ==
    \E id \in LendingRequestIds, offer_id \in 1..(MaxOffers + 1) :
        Serve(select_credit_offer_for_application(DB, id, offer_id))

OpenCreditFacility ==
    \E id \in LendingRequestIds :
        Serve(open_credit_facility_from_lending_application(DB, id))

SendLendingDecisionNotification ==
    \E id \in LendingRequestIds : \E payload \in NotificationPayloads(id) :
        /\ Len(notifications) < MaxNotifications
        /\ Serve(send_lending_decision_notification(DB, payload))

NextChecking ==
    \/ GetApplicationByReference
    \/ EvaluateCompleteness
    \/ EvaluateProductEligibility
    \/ RunBusinessVerification
    \/ RunOwnerVerification
    \/ EvaluateDocuments
    \/ ScoreRisk
    \/ OpenAccount
    \/ SendFinalDecisionNotification

NextLending ==
    \/ IngestTransactionSummary
    \/ GetLendingApplicationByReference
    \/ GetCheckingTransactionSummary
    \/ PullBusinessCreditReport
    \/ GetLatestBusinessCreditReport
    \/ EvaluateLendingPolicyEligibility
    \/ RunLendingUnderwriting
    \/ GenerateCreditLineOffers
    \/ SelectCreditOffer
    \/ OpenCreditFacility
    \/ SendLendingDecisionNotification

Next == NextChecking \/ NextLending

Spec == Init /\ [][Next]_vars

-----------------------------------------------------------------------------
(***************************************************************************)
(* The rules of the checking API on their inputs.  The store holds one     *)
(* checking application whose business, usage profile and owners are drawn *)
(* from the values their columns can hold; the calls are the evaluations   *)
(* that read them and the risk scoring.                                    *)
(***************************************************************************)
MaxOwners == 2

\* A nullable Text column: NULL, the empty text, a text.
Texts(text) == {None, Some(""), Some(text)}

\* An owner row: dob is a nullable Date, national_id a nullable Text,
\* ownership_percentage a nullable Numeric (0 is a value, not a NULL).
OwnerInputs ==
    {Owner(dob, national_id, ownership_percentage) :
        dob \in {None, Some("1980-01-01")},
        national_id \in Texts("ID-1"),
        ownership_percentage \in {None, Some(0)}}

OwnerLists == UNION {[1..n -> OwnerInputs] : n \in 0..MaxOwners}

\* usage_profile is a nullable JSON column: NULL, the empty object, or an
\* object whose cash_deposit_volume_per_month is null or an amount.
CashInputs == {None, Some(0), Some(20000 * Unit), Some(100000 * Unit),
               Some(100000 * Unit + 1), Some(150000 * Unit)}

UsageProfileOf(cash) == Some([cash_deposit_volume_per_month |-> cash])

YearsInputs == {None, Some(0), Some(1), Some(5)}

IndustryInputs == {None, Some("1234"), Some("7995"), Some("9999")}

\* The documents of an application: of a required type or of another one,
\* validated or rejected for a reason, several of a type possibly.
MaxDocuments == 4

DocumentInputs ==
    {Document(doc_type, "VALIDATED", <<>>) :
        doc_type \in RequiredDocTypes \cup {"BANK_STATEMENT"}}
    \cup {Document(doc_type, "REJECTED", <<"EXPIRED">>) :
             doc_type \in RequiredDocTypes}
    \cup {Document("BANK_STATEMENT", "REJECTED", <<"BLURRY">>),
          Document("BANK_STATEMENT", "REJECTED", <<>>)}

DocumentLists == UNION {[1..n -> DocumentInputs] : n \in 0..MaxDocuments}

RuleStore(business, usage_profile, owners, documents) ==
    /\ businesses = <<business>>
    /\ checking_applications =
          [id \in {IdTail} |->
              [reference |-> Reference("CHK", id),
               business_id |-> 1,
               status |-> "RECEIVED",
               usage_profile |-> usage_profile]]
    /\ checking_owners =
          [k \in 1..Len(owners) |->
              [id |-> k,
               checking_application_id |-> IdTail,
               dob |-> owners[k].dob,
               national_id |-> owners[k].national_id,
               ownership_percentage |-> owners[k].ownership_percentage]]
    /\ checking_documents =
          [k \in 1..Len(documents) |->
              [id |-> k,
               checking_application_id |-> IdTail,
               doc_type |-> documents[k].doc_type,
               status |-> documents[k].status,
               reason_codes |-> documents[k].reason_codes]]
    /\ checking_risk_scores = <<>>
    /\ checking_accounts = <<>>
    /\ notifications = <<>>
    /\ lending_applications = <<>>
    /\ lending_transaction_summaries = <<>>
    /\ business_credit_reports = <<>>
    /\ lending_underwriting = <<>>
    /\ lending_offers = <<>>
    /\ credit_facilities = <<>>
    /\ pending = [c \in Callers |-> None]

\* Either the fields the completeness evaluation reads vary, or those the
\* eligibility and the risk rules read, or the documents.
InitRules ==
    \/ \E tax_id \in Texts("12-3456789"), address \in Texts("1 Main St"),
          owners \in OwnerLists :
           \/ RuleStore([SeedBusinesses[1] EXCEPT !.tax_id = tax_id,
                                                  !.address = address],
                        None, owners, <<>>)
           \/ RuleStore([SeedBusinesses[1] EXCEPT !.tax_id = tax_id,
                                                  !.address = address],
                        Some(<<>>), owners, <<>>)
           \/ RuleStore([SeedBusinesses[1] EXCEPT !.tax_id = tax_id,
                                                  !.address = address],
                        UsageProfileOf(Some(20000 * Unit)), owners, <<>>)
    \/ \E years \in YearsInputs, industry \in IndustryInputs :
           LET b == [SeedBusinesses[1] EXCEPT !.years_in_business = years,
                                              !.industry_code = industry]
               owners == CheckingSeeds[1].owners
           IN \/ RuleStore(b, None, owners, <<>>)
              \/ RuleStore(b, Some(<<>>), owners, <<>>)
              \/ \E cash \in CashInputs :
                     RuleStore(b, UsageProfileOf(cash), owners, <<>>)
    \/ \E documents \in DocumentLists :
           RuleStore(SeedBusinesses[1], CheckingSeeds[1].usage_profile,
                     CheckingSeeds[1].owners, documents)

NextRules ==
    \/ EvaluateCompleteness
    \/ EvaluateProductEligibility
    \/ RunOwnerVerification
    \/ EvaluateDocuments
    \/ ScoreRisk

SpecRules == InitRules /\ [][NextRules]_vars

-----------------------------------------------------------------------------
(***************************************************************************)
(* The rules of the lending API on their inputs.  The credit reports and   *)
(* the transaction summaries are loaded into the store from outside the    *)
(* two APIs; the store holds the lending applications of one onboarded     *)
(* customer, with reports of any score updated in any order.               *)
(***************************************************************************)
MaxReports == 2

\* score is a nullable Integer; the rules compare it with 50, 60 and 80.
ScoreInputs == {None, Some(49), Some(50), Some(59), Some(60), Some(79),
                Some(80)}

\* The stored reports: each one of a lending application, the update times
\* all different and in any order against the order of insertion.
ReportLists ==
    UNION {{[k \in 1..n |->
                [id |-> k,
                 lending_application_id |-> owner[k],
                 bureau |-> "EXPERIAN",
                 score |-> score[k],
                 last_updated_at |-> at[k]]] :
              owner \in [1..n -> LendingIds], score \in [1..n -> ScoreInputs],
              at \in Permutations(1..n)} : n \in 0..MaxReports}

\* The summaries of the first application: none, one whose
\* avg_monthly_revenue is NULL, 0 or 1000.00, or two, of 0 and 1000.00 in
\* either order.
SummaryLists ==
    LET avgs == {<<>>, <<None>>, <<Some(0)>>, <<Some(1000 * Unit)>>,
                 <<Some(0), Some(1000 * Unit)>>, <<Some(1000 * Unit), Some(0)>>}
    IN {[k \in 1..Len(avg) |->
            [id |-> k, lending_application_id |-> IdTail,
             checking_account_id |-> OnboardedAccount.id,
             avg_monthly_revenue |-> avg[k]]] : avg \in avgs}

CreditStore(years, requested, summaries, reports) ==
    /\ businesses = <<[SeedBusinesses[1] EXCEPT !.years_in_business = years]>>
    /\ checking_applications =
          [id \in {IdTail} |->
              [reference |-> Reference("CHK", id),
               business_id |-> 1,
               status |-> "DECIDED",
               usage_profile |-> CheckingSeeds[1].usage_profile]]
    /\ checking_owners = <<>>
    /\ checking_documents = <<>>
    /\ checking_risk_scores = <<>>
    /\ checking_accounts = <<OnboardedAccount>>
    /\ notifications = <<>>
    /\ lending_applications =
          [id \in LendingIds |->
              [reference |-> Reference("LND", id),
               customer_id |-> Some("CUST-1"),
               business_id |-> Some(1),
               checking_account_id |-> Some(OnboardedAccount.id),
               requested_amount |-> requested,
               product_type |-> "REVOLVING_LOC",
               status |-> "RECEIVED"]]
    /\ lending_transaction_summaries = summaries
    /\ business_credit_reports = reports
    /\ lending_underwriting = <<>>
    /\ lending_offers = <<>>
    /\ credit_facilities = <<>>
    /\ pending = [c \in Callers |-> None]

\* Either the fields the policy reads vary, or those the underwriting reads.
InitCredit ==
    \E reports \in ReportLists :
        \/ \E years \in YearsInputs,
              requested \in {None, Some(50000 * Unit), Some(50000 * Unit + 1)} :
               CreditStore(years, requested, <<>>, reports)
        \/ \E years \in {Some(0), Some(5)}, summaries \in SummaryLists :
               CreditStore(years, Some(20000 * Unit), summaries, reports)

NextCredit ==
    \/ PullBusinessCreditReport
    \/ GetLatestBusinessCreditReport
    \/ EvaluateLendingPolicyEligibility
    \/ RunLendingUnderwriting

SpecCredit == InitCredit /\ [][NextCredit]_vars

-----------------------------------------------------------------------------
(***************************************************************************)
(* Overlapping open calls.  A handler reads in its own session and writes  *)
(* at db.commit(): a call that found no account (no facility) holds the    *)
(* row it is going to insert while other calls run.  Neither handler takes *)
(* a lock, and neither table has a constraint on the application id.       *)
(***************************************************************************)
\* The commit of a call that finds the row of another call and gives up, as
\* under a unique constraint on the application id.
CommitStoreUnique(db, call) ==
    IF call.api = "CHECKING_APPLICATION"
    THEN IF \E i \in 1..Len(db.checking_accounts) :
                db.checking_accounts[i].checking_application_id = call.id
         THEN db
         ELSE [db EXCEPT
                  !.checking_applications[call.id].status = "DECIDED",
                  !.checking_accounts =
                      Append(@, [id |-> Len(db.checking_accounts) + 1,
                                 checking_application_id |-> call.id,
                                 account_number |->
                                     <<"10", LeadingDigits(call.id)>>,
                                 routing_number |-> "011000015",
                                 status |-> "ACTIVE"])]
    ELSE IF \E i \in 1..Len(db.credit_facilities) :
                db.credit_facilities[i].lending_application_id = call.id
         THEN db
         ELSE [db EXCEPT !.credit_facilities =
                  Append(@, NewFacility(db, call.id, call.offer))]

\* The store after the commit of a pending call: the account with the
\* status of the application, or the facility of the offer the call read.
CommitStore(db, call) ==
    IF call.api = "CHECKING_APPLICATION"
    THEN OpenNewAccount(db, call.id).db
    ELSE [db EXCEPT !.credit_facilities =
             Append(@, NewFacility(db, call.id, call.offer))]

\* The store becomes db; the caller c holds call, or nothing.
Becomes(db, c, call) ==
    /\ TotalRows(db) <= MaxRows
    /\ businesses' = db.businesses
    /\ checking_applications' = db.checking_applications
    /\ checking_owners' = db.checking_owners
    /\ checking_documents' = db.checking_documents
    /\ checking_risk_scores' = db.checking_risk_scores
    /\ checking_accounts' = db.checking_accounts
    /\ notifications' = db.notifications
    /\ lending_applications' = db.lending_applications
    /\ lending_transaction_summaries' = db.lending_transaction_summaries
    /\ business_credit_reports' = db.business_credit_reports
    /\ lending_underwriting' = db.lending_underwriting
    /\ lending_offers' = db.lending_offers
    /\ credit_facilities' = db.credit_facilities
    /\ pending' = [pending EXCEPT ![c] = call]

\* The call up to its commit: one that answers without writing (not found,
\* an existing account) is over; one that is going to insert is pending.
BeginOpenAccount ==
    \E c \in Callers, id \in CheckingRequestIds :
        /\ pending[c] = None
        /\ Becomes(DB, c,
                   IF open_account_from_application(DB, id).db = DB THEN None
                   ELSE Some([api |-> "CHECKING_APPLICATION", id |-> id,
                              offer |-> 0]))

CommitOpenAccount ==
    \E c \in Callers :
        /\ pending[c] # None
        /\ Val(pending[c]).api = "CHECKING_APPLICATION"
        /\ Becomes(CommitStore(DB, Val(pending[c])), c, None)

BeginOpenCreditFacility ==
    \E c \in Callers, id \in LendingRequestIds :
        /\ pending[c] = None
        /\ Becomes(DB, c,
                   IF open_credit_facility_from_lending_application(DB, id).db
                          = DB
                   THEN None
                   ELSE Some([api |-> "LENDING_APPLICATION", id |-> id,
                              offer |-> LatestOffer(DB, id)]))

CommitOpenCreditFacility ==
    \E c \in Callers :
        /\ pending[c] # None
        /\ Val(pending[c]).api = "LENDING_APPLICATION"
        /\ Becomes(CommitStore(DB, Val(pending[c])), c, None)

NextOverlap ==
    \/ BeginOpenAccount
    \/ CommitOpenAccount
    \/ RunLendingUnderwriting
    \/ GenerateCreditLineOffers
    \/ BeginOpenCreditFacility
    \/ CommitOpenCreditFacility

SpecOverlap == Init /\ [][NextOverlap]_vars

-----------------------------------------------------------------------------
(***************************************************************************)
(* Properties.  A property of a call is stated on every reachable store:   *)
(* the handler is applied to the store and its answer and the store it     *)
(* leaves are inspected.                                                   *)
(***************************************************************************)
\* The Account rows of a checking application, read from the table.
AccountRowsOf(db, id) ==
    {i \in 1..Len(db.checking_accounts) :
        db.checking_accounts[i].checking_application_id = id}

\* The CreditFacility rows of a lending application, read from the table.
FacilityRowsOf(db, id) ==
    {i \in 1..Len(db.credit_facilities) :
        db.credit_facilities[i].lending_application_id = id}

\* The Underwriting rows of a lending application, read from the table.
UnderwritingRowsOf(db, id) ==
    {i \in 1..Len(db.lending_underwriting) :
        db.lending_underwriting[i].lending_application_id = id}

\* The Offer rows of a lending application, read from the table.
OfferRowsOf(db, id) ==
    {i \in 1..Len(db.lending_offers) :
        db.lending_offers[i].lending_application_id = id}

\* C1: open_account called twice in a row on the same existing application
\* answers both times with the same account id and the same account number,
\* and the application has exactly one Account row afterwards.
C1_OpenAccountTwice ==
    \A id \in DOMAIN checking_applications :
        LET first == open_account_from_application(DB, id)
            second == open_account_from_application(first.db, id)
        IN /\ first.status_code = 200
           /\ second.status_code = 200
           /\ second.body.account_id = first.body.account_id
           /\ second.body.account_number = first.body.account_number
           /\ Cardinality(AccountRowsOf(second.db, id)) = 1

\* An account has been opened for an application that started without one,
\* and a further call answers with that row and writes nothing.
C1_Witness ==
    \E id \in DOMAIN checking_applications :
        /\ DOMAIN lending_applications = {}
        /\ Cardinality(AccountRowsOf(DB, id)) = 1
        /\ LET again == open_account_from_application(DB, id)
           IN /\ again.db = DB
              /\ \E i \in AccountRowsOf(DB, id) :
                     /\ again.body.account_id = checking_accounts[i].id
                     /\ again.body.account_number
                            = checking_accounts[i].account_number

\* C2: in every state the calls reach one after the other, a checking
\* application has at most one Account row and a lending application has at
\* most one CreditFacility row.
C2_AtMostOnce ==
    /\ \A id \in DOMAIN checking_applications :
           Cardinality(AccountRowsOf(DB, id)) <= 1
    /\ \A id \in DOMAIN lending_applications :
           Cardinality(FacilityRowsOf(DB, id)) <= 1

\* An application of each API, started without account and facility, has
\* its row, and the call that opened it would now write nothing.
C2_Witness ==
    /\ \E id \in DOMAIN checking_applications :
           /\ Cardinality(AccountRowsOf(DB, id)) = 1
           /\ open_account_from_application(DB, id).db = DB
    /\ \E id \in DOMAIN lending_applications :
           /\ lending_applications[id].checking_account_id = None
           /\ Cardinality(FacilityRowsOf(DB, id)) = 1
           /\ open_credit_facility_from_lending_application(DB, id).db = DB

\* C3: every generate-offers call on a lending application that has an
\* Underwriting row appends exactly one Offer row, a repeated call with the
\* latest Underwriting row unchanged included.
C3_GenerateAlwaysAppends ==
    \A id \in DOMAIN lending_applications :
        UnderwritingRowsOf(DB, id) # {} =>
            LET first == generate_credit_line_offers(DB, id)
                second == generate_credit_line_offers(first.db, id)
            IN /\ Len(first.db.lending_offers) = Len(lending_offers) + 1
               /\ Len(second.db.lending_offers) = Len(lending_offers) + 2

\* C4: the stored Offer rows, all applications together, have pairwise
\* distinct offer codes, and the code of a row is the one derived from the
\* whole units of its credit limit.
C4_OfferCodesDistinct ==
    /\ \A i, j \in 1..Len(lending_offers) :
           lending_offers[i].offer_code = lending_offers[j].offer_code => i = j
    /\ \A i \in 1..Len(lending_offers) :
           lending_offers[i].offer_code
               = <<"OFFER-LOC", lending_offers[i].credit_limit \div Unit>>

\* Two offers are stored, and an application whose next offer would take
\* the code of a stored one is refused at commit.
C4_Witness ==
    /\ Len(lending_offers) >= 2
    /\ \E id \in DOMAIN lending_applications :
           /\ UnderwritingRowsOf(DB, id) # {}
           /\ generate_credit_line_offers(DB, id).status_code = 500
           /\ generate_credit_line_offers(DB, id).db = DB

\* C5: generate-offers on an existing lending application that has no
\* Underwriting row fails with the client error 400 and leaves the Offer
\* rows, and the whole store, as they were.
C5_GenerateWithoutUnderwriting ==
    \A id \in DOMAIN lending_applications :
        UnderwritingRowsOf(DB, id) = {} =>
            LET r == generate_credit_line_offers(DB, id)
            IN /\ r.status_code = 400
               /\ r.db.lending_offers = lending_offers
               /\ r.db = DB

\* An application without underwriting is refused while another one has
\* been underwritten.
C5_Witness ==
    \E id, other \in DOMAIN lending_applications :
        /\ UnderwritingRowsOf(DB, id) = {}
        /\ UnderwritingRowsOf(DB, other) # {}
        /\ generate_credit_line_offers(DB, id).status_code = 400
        /\ generate_credit_line_offers(DB, other).status_code = 200

\* C6: open-credit-facility on an existing lending application that has no
\* facility and no Offer row fails with the client error 400, creates no
\* CreditFacility row and leaves the application as it was.
C6_OpenFacilityWithoutOffer ==
    \A id \in DOMAIN lending_applications :
        (FacilityRowsOf(DB, id) = {} /\ OfferRowsOf(DB, id) = {}) =>
            LET r == open_credit_facility_from_lending_application(DB, id)
            IN /\ r.status_code = 400
               /\ r.db.credit_facilities = credit_facilities
               /\ r.db.lending_applications = lending_applications
               /\ r.db = DB

\* An application without offer is refused while another one has an offer
\* and could open its facility.
C6_Witness ==
    \E id, other \in DOMAIN lending_applications :
        /\ FacilityRowsOf(DB, id) = {} /\ OfferRowsOf(DB, id) = {}
        /\ OfferRowsOf(DB, other) # {}
        /\ open_credit_facility_from_lending_application(DB, id).status_code = 400
        /\ Len(open_credit_facility_from_lending_application(DB, other)
                   .db.credit_facilities) = Len(credit_facilities) + 1

\* Completeness is established for a lending application when a checking
\* application of its business passes the completeness evaluation: the
\* lending API itself keeps no record of completeness.
CompletenessEstablished(db, id) ==
    \E cid \in DOMAIN db.checking_applications :
        /\ db.lending_applications[id].business_id
               = Some(db.checking_applications[cid].business_id)
        /\ evaluate_application_completeness(db, cid).body.can_proceed

\* C7, as the specification states it: underwriting run on an application
\* whose completeness has not been established is rejected with the client
\* error 400 and appends no Underwriting row.
C7_UnderwritingNeedsCompleteness ==
    \A id \in DOMAIN lending_applications :
        ~CompletenessEstablished(DB, id) =>
            LET r == run_lending_underwriting(DB, id)
            IN /\ r.status_code = 400
               /\ r.db.lending_underwriting = lending_underwriting

\* C7, as the code has it: underwriting run on an existing lending
\* application that has a business succeeds and appends exactly one
\* Underwriting row of that application, whether or not completeness has
\* been established; nothing else is written.
C7_UnderwritingIgnoresCompleteness ==
    \A id \in DOMAIN lending_applications :
        lending_applications[id].business_id # None =>
            LET r == run_lending_underwriting(DB, id)
                n == Len(lending_underwriting)
            IN /\ r.status_code = 200
               /\ Len(r.db.lending_underwriting) = n + 1
               /\ r.db.lending_underwriting[n + 1].lending_application_id = id
               /\ r.db = [DB EXCEPT !.lending_underwriting =
                             Append(lending_underwriting,
                                    r.db.lending_underwriting[n + 1])]

\* An application has been underwritten although the checking application
\* of its business fails the completeness evaluation, and would be again.
C7_Witness ==
    \E id \in DOMAIN lending_applications :
        /\ UnderwritingRowsOf(DB, id) # {}
        /\ ~CompletenessEstablished(DB, id)
        /\ \E cid \in DOMAIN checking_applications :
               /\ lending_applications[id].business_id
                      = Some(checking_applications[cid].business_id)
               /\ ~evaluate_application_completeness(DB, cid).body.can_proceed
        /\ run_lending_underwriting(DB, id).status_code = 200

\* C8: open_account on an existing checking application that has no account
\* succeeds and creates the account, whichever of the other steps ran
\* before it and whatever they answered.
C8_OpenAccountUnsequenced ==
    \A id \in DOMAIN checking_applications :
        AccountRowsOf(DB, id) = {} =>
            LET r == open_account_from_application(DB, id)
            IN /\ r.status_code = 200
               /\ Cardinality(AccountRowsOf(r.db, id)) = 1
               /\ r.body.account_id \in AccountRowsOf(r.db, id)

\* An account has been opened for an application that was never scored and
\* that fails completeness, owner verification and the document check.
C8_Witness ==
    \E id \in DOMAIN checking_applications :
        /\ AccountRowsOf(DB, id) # {}
        /\ \A i \in 1..Len(checking_risk_scores) :
               checking_risk_scores[i].checking_application_id # id
        /\ ~evaluate_application_completeness(DB, id).body.can_proceed
        /\ run_owner_verification(DB, id).body.overall_status = "FAILED"
        /\ ~evaluate_document_set_for_application(DB, id).body.docs_ok

\* C9: the first open_account on an existing checking application without
\* account writes exactly one Account row, ACTIVE, and the status DECIDED of
\* the application, together and nothing else; opening the facility of a
\* lending application writes one CreditFacility row and nothing else, the
\* status of the application staying as it was.
C9_OpeningWrites ==
    /\ \A id \in DOMAIN checking_applications :
           AccountRowsOf(DB, id) = {} =>
               LET r == open_account_from_application(DB, id)
                   n == Len(checking_accounts)
               IN /\ Len(r.db.checking_accounts) = n + 1
                  /\ r.db.checking_accounts[n + 1].status = "ACTIVE"
                  /\ r.db.checking_accounts[n + 1].checking_application_id = id
                  /\ r.db.checking_applications[id].status = "DECIDED"
                  /\ r.db = [DB EXCEPT
                                !.checking_applications[id].status = "DECIDED",
                                !.checking_accounts =
                                    Append(checking_accounts,
                                           r.db.checking_accounts[n + 1])]
    /\ \A id \in DOMAIN lending_applications :
           (FacilityRowsOf(DB, id) = {} /\ OfferRowsOf(DB, id) # {}) =>
               LET r == open_credit_facility_from_lending_application(DB, id)
                   n == Len(credit_facilities)
               IN /\ Len(r.db.credit_facilities) = n + 1
                  /\ r.db.credit_facilities[n + 1].lending_application_id = id
                  /\ r.db.lending_applications[id].status
                         = lending_applications[id].status
                  /\ r.db = [DB EXCEPT !.credit_facilities =
                                Append(credit_facilities,
                                       r.db.credit_facilities[n + 1])]

\* A checking application that started without account is DECIDED with its
\* one ACTIVE account, and a lending application has its facility and a
\* status that is not DECIDED.
C9_Witness ==
    /\ \E id \in DOMAIN checking_applications :
           /\ checking_applications[id].status = "DECIDED"
           /\ \E i \in AccountRowsOf(DB, id) :
                  /\ AccountRowsOf(DB, id) = {i}
                  /\ checking_accounts[i].status = "ACTIVE"
    /\ \E id \in DOMAIN lending_applications :
           /\ lending_applications[id].checking_account_id = None
           /\ Cardinality(FacilityRowsOf(DB, id)) = 1
           /\ lending_applications[id].status # "DECIDED"

\* A call of a pipeline step: the step, the application it names and the
\* other inputs of the step (those the step does not take are fixed).
Call(step, id, product_id, offer_id, payload) ==
    [step |-> step, id |-> id, product_id |-> product_id,
     offer_id |-> offer_id, payload |-> payload]

NoPayload(id) ==
    [application_id |-> id, channel |-> "", decision |-> "",
     reason_codes |-> <<>>]

\* The calls of the checking API that name the application id.
CheckingCalls(id) ==
    {Call(step, id, <<>>, 0, NoPayload(id)) :
        step \in {"get_application_by_reference",
                  "evaluate_application_completeness",
                  "run_business_verification", "run_owner_verification",
                  "evaluate_document_set_for_application",
                  "score_application_risk", "open_account_from_application"}}
    \cup {Call("evaluate_product_eligibility", id, product_id, 0, NoPayload(id)) :
             product_id \in ProductIds}
    \cup {Call("send_final_decision_notification", id, <<>>, 0, payload) :
             payload \in NotificationPayloads(id)}

\* The calls of the lending API that name the application id.
LendingCalls(id) ==
    {Call(step, id, <<>>, 0, NoPayload(id)) :
        step \in {"get_lending_application_by_reference",
                  "get_checking_transaction_summary_for_lending",
                  "pull_business_credit_report",
                  "get_latest_business_credit_report",
                  "evaluate_lending_policy_eligibility",
                  "run_lending_underwriting", "generate_credit_line_offers",
                  "open_credit_facility_from_lending_application"}}
    \cup {Call("select_credit_offer_for_application", id, <<>>, offer_id,
               NoPayload(id)) : offer_id \in 1..(MaxOffers + 1)}
    \cup {Call("send_lending_decision_notification", id, <<>>, 0, payload) :
             payload \in NotificationPayloads(id)}

\* The handler a call reaches, applied to the store.
Dispatch(db, call) ==
    CASE call.step = "get_application_by_reference" ->
             get_application_by_reference(db, Reference("CHK", call.id))
      [] call.step = "get_lending_application_by_reference" ->
             get_lending_application_by_reference(db, Reference("LND", call.id))
      [] call.step = "evaluate_application_completeness" ->
             evaluate_application_completeness(db, call.id)
      [] call.step = "evaluate_product_eligibility" ->
             evaluate_product_eligibility(db, call.id, call.product_id)
      [] call.step = "run_business_verification" ->
             run_business_verification(db, call.id)
      [] call.step = "run_owner_verification" ->
             run_owner_verification(db, call.id)
      [] call.step = "evaluate_document_set_for_application" ->
             evaluate_document_set_for_application(db, call.id)
      [] call.step = "score_application_risk" ->
             score_application_risk(db, call.id)
      [] call.step = "open_account_from_application" ->
             open_account_from_application(db, call.id)
      [] call.step = "send_final_decision_notification" ->
             send_final_decision_notification(db, call.payload)
      [] call.step = "get_checking_transaction_summary_for_lending" ->
             get_checking_transaction_summary_for_lending(db, call.id)
      [] call.step = "pull_business_credit_report" ->
             pull_business_credit_report(db, call.id, "EXPERIAN")
      [] call.step = "get_latest_business_credit_report" ->
             get_latest_business_credit_report(db, call.id)
      [] call.step = "evaluate_lending_policy_eligibility" ->
             evaluate_lending_policy_eligibility(db, call.id)
      [] call.step = "run_lending_underwriting" ->
             run_lending_underwriting(db, call.id)
      [] call.step = "generate_credit_line_offers" ->
             generate_credit_line_offers(db, call.id)
      [] call.step = "select_credit_offer_for_application" ->
             select_credit_offer_for_application(db, call.id, call.offer_id)
      [] call.step = "open_credit_facility_from_lending_application" ->
             open_credit_facility_from_lending_application(db, call.id)
      [] call.step = "send_lending_decision_notification" ->
             send_lending_decision_notification(db, call.payload)

\* The values the status of an application is given in the comparison.
Statuses == {"RECEIVED", "IN_REVIEW", "DECIDED"}

\* The store with the status of every application blotted out.
WithoutStatus(db) ==
    [db EXCEPT
        !.checking_applications =
            [id \in DOMAIN @ |-> [@[id] EXCEPT !.status = ""]],
        !.lending_applications =
            [id \in DOMAIN @ |-> [@[id] EXCEPT !.status = ""]]]

\* The statuses of the applications of a store, API by API.
StatusesOf(db) ==
    <<[id \in DOMAIN db.checking_applications |->
          db.checking_applications[id].status],
      [id \in DOMAIN db.lending_applications |->
          db.lending_applications[id].status]>>

\* Two answers that are the same result and the same writes, the statuses
\* of the applications apart.
SameOutcome(r1, r2) ==
    /\ r1.status_code = r2.status_code
    /\ r1.body = r2.body
    /\ WithoutStatus(r1.db) = WithoutStatus(r2.db)

\* The calls of a step change no status.
WritesNoStatus(calls) ==
    \A call \in calls : StatusesOf(Dispatch(DB, call).db) = StatusesOf(DB)

\* The calls have the same result and the same writes on the store and on
\* the store where the application id of the checking API (of the lending
\* API) has any other status.
CheckingStatusUnread(id, calls) ==
    \A status \in Statuses : \A call \in calls :
        SameOutcome(
            Dispatch(DB, call),
            Dispatch([DB EXCEPT !.checking_applications[id].status = status],
                     call))

LendingStatusUnread(id, calls) ==
    \A status \in Statuses : \A call \in calls :
        SameOutcome(
            Dispatch(DB, call),
            Dispatch([DB EXCEPT !.lending_applications[id].status = status],
                     call))

\* The calls of the steps that are not the lookup by reference.
NotLookup(calls) ==
    {call \in calls :
        call.step \notin {"get_application_by_reference",
                          "get_lending_application_by_reference"}}

\* The answer of a lookup with the status it reports blotted out.
LookupWithoutStatus(r) ==
    [r EXCEPT !.body = IF r.status_code = 200
                       THEN [@ EXCEPT !.application.status = ""]
                       ELSE @]

\* C10, as the specification states it: no call of a step other than the
\* checking open_account changes the status of any application; and every
\* step, called on an application, has the same result and the same writes
\* whatever the status of that application is.
C10_StatusNeitherWrittenNorRead ==
    /\ \A id \in CheckingRequestIds :
           WritesNoStatus({call \in CheckingCalls(id) :
                              call.step # "open_account_from_application"})
    /\ \A id \in LendingRequestIds : WritesNoStatus(LendingCalls(id))
    /\ \A id \in DOMAIN checking_applications :
           CheckingStatusUnread(id, CheckingCalls(id))
    /\ \A id \in DOMAIN lending_applications :
           LendingStatusUnread(id, LendingCalls(id))

\* C10, as the code has it: no call of a step other than the checking
\* open_account changes the status of any application; every step but the
\* lookup by reference has the same result and the same writes whatever the
\* status of the application is; the lookup writes nothing and its answer
\* changes with the status in the status it reports and in nothing else.
C10_StatusReadByLookupOnly ==
    /\ \A id \in CheckingRequestIds :
           WritesNoStatus({call \in CheckingCalls(id) :
                              call.step # "open_account_from_application"})
    /\ \A id \in LendingRequestIds : WritesNoStatus(LendingCalls(id))
    /\ \A id \in DOMAIN checking_applications :
           /\ CheckingStatusUnread(id, NotLookup(CheckingCalls(id)))
           /\ \A status \in Statuses :
                  LET other == [DB EXCEPT
                                   !.checking_applications[id].status = status]
                      r1 == get_application_by_reference(DB, Reference("CHK", id))
                      r2 == get_application_by_reference(other, Reference("CHK", id))
                  IN /\ r1.db = DB /\ r2.db = other
                     /\ r1.body.application.status
                            = checking_applications[id].status
                     /\ r2.body.application.status = status
                     /\ LookupWithoutStatus(r1).body = LookupWithoutStatus(r2).body
                     /\ r1.status_code = r2.status_code
    /\ \A id \in DOMAIN lending_applications :
           /\ LendingStatusUnread(id, NotLookup(LendingCalls(id)))
           /\ \A status \in Statuses :
                  LET other == [DB EXCEPT
                                   !.lending_applications[id].status = status]
                      r1 == get_lending_application_by_reference(
                                DB, Reference("LND", id))
                      r2 == get_lending_application_by_reference(
                                other, Reference("LND", id))
                  IN /\ r1.db = DB /\ r2.db = other
                     /\ r1.status_code = 200 =>
                            /\ r1.body.application.status
                                   = lending_applications[id].status
                            /\ r2.body.application.status = status
                     /\ LookupWithoutStatus(r1).body = LookupWithoutStatus(r2).body
                     /\ r1.status_code = r2.status_code

\* A checking application that is DECIDED has a risk score, is scored
\* again on request and is reported DECIDED by the lookup, and a lending
\* application that is IN_REVIEW has been underwritten and offered a credit
\* line.
C10_Witness ==
    /\ \E id \in DOMAIN checking_applications :
           /\ checking_applications[id].status = "DECIDED"
           /\ get_application_by_reference(DB, Reference("CHK", id))
                  .body.application.status = "DECIDED"
           /\ \E i \in 1..Len(checking_risk_scores) :
                  checking_risk_scores[i].checking_application_id = id
           /\ score_application_risk(DB, id).status_code = 200
    /\ \E id \in DOMAIN lending_applications :
           /\ lending_applications[id].status = "IN_REVIEW"
           /\ UnderwritingRowsOf(DB, id) # {}
           /\ OfferRowsOf(DB, id) # {}

\* The rows a call appended to a table: those after the n the table had.
Appended(before, after) ==
    IF Len(after) >= Len(before) /\ SubSeq(after, 1, Len(before)) = before
    THEN SubSeq(after, Len(before) + 1, Len(after))
    ELSE <<>>

\* C11: a successful risk-scoring call appends exactly one RiskScore row and
\* a successful underwriting call exactly one Underwriting row; a second
\* call on the same application, its data unchanged, appends a second row
\* with the same computed values.
C11_EveryCallAppends ==
    /\ \A id \in CheckingRequestIds :
           LET r == score_application_risk(DB, id)
           IN r.status_code = 200 =>
                  Len(Appended(checking_risk_scores,
                               r.db.checking_risk_scores)) = 1
    /\ \A id \in LendingRequestIds :
           LET r == run_lending_underwriting(DB, id)
           IN r.status_code = 200 =>
                  Len(Appended(lending_underwriting,
                               r.db.lending_underwriting)) = 1
    /\ \A id \in DOMAIN checking_applications :
           LET first == score_application_risk(DB, id)
               second == score_application_risk(first.db, id)
               rows == Appended(checking_risk_scores,
                                second.db.checking_risk_scores)
           IN /\ first.status_code = 200 /\ second.status_code = 200
              /\ Len(rows) = 2
              /\ rows[1].checking_application_id = id
              /\ rows[2] = [rows[1] EXCEPT !.id = rows[1].id + 1]
              /\ second.body = first.body
    /\ \A id \in DOMAIN lending_applications :
           lending_applications[id].business_id # None =>
               LET first == run_lending_underwriting(DB, id)
                   second == run_lending_underwriting(first.db, id)
                   rows == Appended(lending_underwriting,
                                    second.db.lending_underwriting)
               IN /\ first.status_code = 200 /\ second.status_code = 200
                  /\ Len(rows) = 2
                  /\ rows[1].lending_application_id = id
                  /\ rows[2] = [rows[1] EXCEPT !.id = rows[1].id + 1]
                  /\ [second.body EXCEPT !.underwriting_id = 0]
                         = [first.body EXCEPT !.underwriting_id = 0]

\* A checking application has been scored twice and a lending application
\* underwritten twice, each time with the same values.
C11_Witness ==
    /\ \E id \in DOMAIN checking_applications :
           \E i, j \in 1..Len(checking_risk_scores) :
               /\ i < j
               /\ checking_risk_scores[i].checking_application_id = id
               /\ checking_risk_scores[j]
                      = [checking_risk_scores[i] EXCEPT !.id = j]
    /\ \E id \in DOMAIN lending_applications :
           \E i, j \in 1..Len(lending_underwriting) :
               /\ i < j
               /\ lending_underwriting[i].lending_application_id = id
               /\ lending_underwriting[j]
                      = [lending_underwriting[i] EXCEPT !.id = j]

\* Every call a request may make, on a stored application or on an id that
\* matches none.
AllCalls ==
    UNION {CheckingCalls(id) : id \in CheckingRequestIds}
    \cup UNION {LendingCalls(id) : id \in LendingRequestIds}

\* The table after a call still starts with the rows it had, unchanged.
Keeps(before, after) ==
    Len(after) >= Len(before) /\ SubSeq(after, 1, Len(before)) = before

\* C12: no call of any step changes or removes a RiskScore, Underwriting,
\* Offer or Notification row that is stored: after the call each of the four
\* tables starts with the rows it had, every one with the values it had.
C12_RowsOnlyAppended ==
    \A call \in AllCalls :
        LET after == Dispatch(DB, call).db
        IN /\ Keeps(checking_risk_scores, after.checking_risk_scores)
           /\ Keeps(lending_underwriting, after.lending_underwriting)
           /\ Keeps(lending_offers, after.lending_offers)
           /\ Keeps(notifications, after.notifications)

\* Each of the four tables has a row, the RiskScore table a row written
\* after its first one, and a further notification would be appended.
C12_Witness ==
    /\ Len(checking_risk_scores) >= 2
    /\ Len(lending_underwriting) >= 1
    /\ Len(lending_offers) >= 1
    /\ Len(notifications) >= 1
    /\ \E call \in AllCalls :
           /\ call.step = "send_final_decision_notification"
           /\ Len(Dispatch(DB, call).db.notifications) = Len(notifications) + 1

\* The ids a request may name that match no stored application.
UnknownCheckingIds == CheckingRequestIds \ DOMAIN checking_applications
UnknownLendingIds == LendingRequestIds \ DOMAIN lending_applications

\* The call answers 404 and leaves every stored row as it was.
RefusedNotFound(call) ==
    /\ Dispatch(DB, call).status_code = 404
    /\ Dispatch(DB, call).db = DB

\* C13: every step of either API, called with an application id that
\* matches no stored application, answers 404 and leaves every stored row
\* as it was, the steps that otherwise append a row included.
C13_UnknownApplicationNotFound ==
    /\ \A id \in UnknownCheckingIds :
           \A call \in CheckingCalls(id) : RefusedNotFound(call)
    /\ \A id \in UnknownLendingIds :
           \A call \in LendingCalls(id) : RefusedNotFound(call)

\* Rows of stored applications exist, and a call of an appending step of
\* each API that names an unknown application is refused.
C13_Witness ==
    /\ Len(checking_risk_scores) >= 1
    /\ Len(lending_underwriting) >= 1
    /\ \E id \in UnknownCheckingIds : \E call \in CheckingCalls(id) :
           /\ call.step = "score_application_risk"
           /\ RefusedNotFound(call)
    /\ \E id \in UnknownLendingIds : \E call \in LendingCalls(id) :
           /\ call.step = "generate_credit_line_offers"
           /\ RefusedNotFound(call)

\* The Offer row of an application that was created last.
LastOfferRowOf(db, id) ==
    db.lending_offers[CHOOSE i \in OfferRowsOf(db, id) :
                          \A j \in OfferRowsOf(db, id) : j <= i]

\* The facility takes the terms of the offer and the fixed ones.
TermsOf(facility, offer) ==
    /\ facility.credit_limit = offer.credit_limit
    /\ facility.apr = offer.apr
    /\ facility.facility_type = offer.product_type
    /\ facility.status = "ACTIVE"
    /\ facility.billing_cycle_day = 15
    /\ facility.drawdown_terms = "REVOLVING_NET_30"

\* C14: the facility a call opens for an application that has none takes
\* credit_limit, apr and facility_type of the Offer row of the application
\* created last, whichever offer a select-offer call named before, and has
\* status ACTIVE, billing_cycle_day 15 and drawdown_terms REVOLVING_NET_30.
C14_FacilityFromLatestOffer ==
    \A id \in DOMAIN lending_applications :
        (FacilityRowsOf(DB, id) = {} /\ OfferRowsOf(DB, id) # {}) =>
            \A offer_id \in 1..(MaxOffers + 1) :
                LET selected == select_credit_offer_for_application(
                                    DB, id, offer_id)
                    opened == open_credit_facility_from_lending_application(
                                  selected.db, id)
                    rows == Appended(credit_facilities,
                                     opened.db.credit_facilities)
                IN /\ Len(rows) = 1
                   /\ rows[1].lending_application_id = id
                   /\ TermsOf(rows[1], LastOfferRowOf(DB, id))

\* An application was made two offers of different limits and then opened
\* its facility: the facility has the limit of the later offer.
C14_Witness ==
    \E id \in DOMAIN lending_applications :
        \E f \in FacilityRowsOf(DB, id) : \E i \in OfferRowsOf(DB, id) :
            /\ lending_offers[i].credit_limit
                   # LastOfferRowOf(DB, id).credit_limit
            /\ TermsOf(credit_facilities[f], LastOfferRowOf(DB, id))

\* The Underwriting row of an application that was created last.
LastUnderwritingRowOf(db, id) ==
    db.lending_underwriting[CHOOSE i \in UnderwritingRowsOf(db, id) :
                                \A j \in UnderwritingRowsOf(db, id) : j <= i]

\* The offer has the limits the rule derives of an exposure and the fixed
\* terms: limit = 0.8 x exposure, min = 0.5 x limit, max = exposure.
DerivedFrom(offer, exposure) ==
    /\ offer.max_credit_limit = exposure
    /\ offer.credit_limit * 10 = exposure * 8
    /\ offer.min_credit_limit * 10 = offer.credit_limit * 5
    /\ offer.min_credit_limit <= offer.credit_limit
    /\ offer.credit_limit <= offer.max_credit_limit
    /\ offer.apr * 100 = 14 * Unit
    /\ offer.origination_fee * 100 = 1 * Unit
    /\ offer.annual_fee = 0
    /\ offer.collateral_required = FALSE
    /\ offer.product_type = "REVOLVING_LOC"

\* C15: a generate-offers call that succeeds adds one offer, derived of the
\* Underwriting row of the application created last: credit_limit is 0.8 x
\* its recommended_max_exposure, min_credit_limit 0.5 x credit_limit,
\* max_credit_limit the exposure, so min <= limit <= max, with apr 0.14,
\* origination_fee 0.01, annual_fee 0, no collateral, a revolving line; the
\* response carries the same offer.
C15_OfferFromLatestUnderwriting ==
    \A id \in DOMAIN lending_applications :
        LET r == generate_credit_line_offers(DB, id)
            rows == Appended(lending_offers, r.db.lending_offers)
        IN (UnderwritingRowsOf(DB, id) # {} /\ r.status_code = 200) =>
               /\ Len(rows) = 1
               /\ rows[1].lending_application_id = id
               /\ DerivedFrom(rows[1],
                      LastUnderwritingRowOf(DB, id).recommended_max_exposure)
               /\ r.body.offers = <<OfferSnapshot(rows[1])>>

\* An application was underwritten twice with different exposures and has
\* an offer derived of the later one.
C15_Witness ==
    \E id \in DOMAIN lending_applications :
        \E u \in UnderwritingRowsOf(DB, id) : \E o \in OfferRowsOf(DB, id) :
            /\ lending_underwriting[u].recommended_max_exposure
                   # LastUnderwritingRowOf(DB, id).recommended_max_exposure
            /\ DerivedFrom(lending_offers[o],
                   LastUnderwritingRowOf(DB, id).recommended_max_exposure)

\* The offer ids a select-offer request may name: the stored ones and one
\* that is not stored.
OfferRequestIds == 1..(MaxOffers + 1)

\* The Offer row exists and is an offer of a stored application.
OfferBelongs(db, id, offer_id) ==
    /\ id \in DOMAIN db.lending_applications
    /\ offer_id \in 1..Len(db.lending_offers)
    /\ db.lending_offers[offer_id].lending_application_id = id

\* C16: select-offer answers OFFER_SELECTED with the snapshot of the offer
\* exactly when the offer exists and is of the application named, answers
\* not-found otherwise, and changes no row either way.
C16_SelectExactlyOwnOffers ==
    \A id \in LendingRequestIds : \A offer_id \in OfferRequestIds :
        LET r == select_credit_offer_for_application(DB, id, offer_id)
        IN /\ r.db = DB
           /\ IF OfferBelongs(DB, id, offer_id)
              THEN /\ r.status_code = 200
                   /\ r.body.status = "OFFER_SELECTED"
                   /\ r.body.selected_offer_snapshot
                          = OfferSnapshot(lending_offers[offer_id])
              ELSE r.status_code = 404

\* An offer of one application is selected for it and refused to another
\* stored application.
C16_Witness ==
    \E id \in DOMAIN lending_applications :
        \E other \in DOMAIN lending_applications \ {id} :
            \E offer_id \in OfferRowsOf(DB, id) :
                /\ select_credit_offer_for_application(
                       DB, id, offer_id).status_code = 200
                /\ select_credit_offer_for_application(
                       DB, other, offer_id).status_code = 404

\* The Owner rows of a checking application, read from the table.
OwnerRowsOf(db, id) ==
    {db.checking_owners[i] : i \in {j \in 1..Len(db.checking_owners) :
        db.checking_owners[j].checking_application_id = id}}

\* The codes the completeness of an application calls for.  A text is
\* missing when it is NULL or empty, a date or a number when it is NULL, the
\* usage profile when it is NULL or has no entry.
MissingCodes(db, id) ==
    LET app_obj == db.checking_applications[id]
        b == db.businesses[app_obj.business_id]
        owners == OwnerRowsOf(db, id)
    IN {c \in Range(LexOrder) :
          \/ c = "BUSINESS_TAX_ID" /\ b.tax_id \in {None, Some("")}
          \/ c = "BUSINESS_ADDRESS" /\ b.address \in {None, Some("")}
          \/ c = "OWNERS_MISSING" /\ owners = {}
          \/ c = "OWNER_DOB" /\ \E o \in owners : o.dob = None
          \/ c = "OWNER_ID_NUMBER"
                /\ \E o \in owners : o.national_id \in {None, Some("")}
          \/ c = "OWNERSHIP_PERCENTAGE"
                /\ \E o \in owners : o.ownership_percentage = None
          \/ c = "USAGE_PROFILE_MISSING"
                /\ (app_obj.usage_profile = None
                    \/ DOMAIN Val(app_obj.usage_profile) = {})}

\* The place of a code in Python's string order.
LexPlace(c) == CHOOSE i \in 1..Len(LexOrder) : LexOrder[i] = c

\* The stores that differ from db in the order of the Owner rows only.
OwnerOrderings(db) ==
    {[db EXCEPT !.checking_owners =
         [i \in 1..Len(db.checking_owners) |-> db.checking_owners[f[i]]]] :
        f \in Permutations(1..Len(db.checking_owners))}

\* C17: the completeness evaluation answers the codes that are called for
\* (BUSINESS_TAX_ID, BUSINESS_ADDRESS, OWNERS_MISSING without any owner,
\* else OWNER_DOB, OWNER_ID_NUMBER, OWNERSHIP_PERCENTAGE when some owner
\* lacks the field, USAGE_PROFILE_MISSING), each once and in lexical order;
\* can_proceed says that there is none; an application without owners gets
\* OWNERS_MISSING and cannot proceed; the answer is the same in every order
\* of the owners.
C17_CompletenessCodes ==
    \A id \in DOMAIN checking_applications :
        LET r == evaluate_application_completeness(DB, id)
            codes == r.body.missing_field_codes
        IN /\ r.status_code = 200
           /\ Range(codes) = MissingCodes(DB, id)
           /\ \A i \in 1..Len(codes), j \in 1..Len(codes) :
                  i < j => LexPlace(codes[i]) < LexPlace(codes[j])
           /\ r.body.can_proceed = (codes = <<>>)
           /\ OwnerRowsOf(DB, id) = {} =>
                  /\ "OWNERS_MISSING" \in Range(codes)
                  /\ r.body.can_proceed = FALSE
           /\ \A other \in OwnerOrderings(DB) :
                  evaluate_application_completeness(other, id).body = r.body

\* An application whose business has an empty tax id, with a complete owner
\* before one that lacks every field: the evaluation names the tax id and
\* the three owner codes, sorted.
C17_Witness ==
    \E id \in DOMAIN checking_applications :
        /\ businesses[checking_applications[id].business_id].tax_id = Some("")
        /\ Len(checking_owners) = 2
        /\ checking_owners[1].dob # None
        /\ checking_owners[1].national_id = Some("ID-1")
        /\ checking_owners[1].ownership_percentage # None
        /\ checking_owners[2].dob = None
        /\ checking_owners[2].national_id = Some("")
        /\ checking_owners[2].ownership_percentage = None
        /\ evaluate_application_completeness(DB, id).body.missing_field_codes
               = <<"BUSINESS_TAX_ID", "OWNERSHIP_PERCENTAGE", "OWNER_DOB",
                   "OWNER_ID_NUMBER">>
        /\ evaluate_application_completeness(DB, id).body.can_proceed = FALSE

\* The answers of the six evaluations to every request on a store.
EvaluationsOf(db) ==
    {evaluate_application_completeness(db, id) : id \in CheckingRequestIds}
    \cup {evaluate_product_eligibility(db, id, product_id) :
             id \in CheckingRequestIds, product_id \in ProductIds}
    \cup {run_business_verification(db, id) : id \in CheckingRequestIds}
    \cup {run_owner_verification(db, id) : id \in CheckingRequestIds}
    \cup {evaluate_document_set_for_application(db, id) :
             id \in CheckingRequestIds}
    \cup {evaluate_lending_policy_eligibility(db, id) :
             id \in LendingRequestIds}

\* C18: the completeness evaluation, the product eligibility, the lending
\* policy eligibility, the business verification, the owner verification and
\* the document evaluation leave every stored row as it was, whatever their
\* verdict.
C18_EvaluationsReadOnly ==
    \A r \in EvaluationsOf(DB) : r.db = DB

\* A store with a risk score and an offer on which the completeness, the
\* business verification, the owner verification, the document evaluation
\* and the lending policy answer a negative verdict and change nothing.
C18_Witness ==
    /\ checking_risk_scores # <<>>
    /\ lending_offers # <<>>
    /\ \E id \in DOMAIN checking_applications :
           /\ evaluate_application_completeness(DB, id).body.can_proceed = FALSE
           /\ run_business_verification(DB, id).body.status = "FAILED"
           /\ run_owner_verification(DB, id).body.overall_status = "FAILED"
           /\ evaluate_document_set_for_application(DB, id).body.docs_ok = FALSE
           /\ run_business_verification(DB, id).db = DB
    /\ \E id \in DOMAIN lending_applications :
           /\ evaluate_lending_policy_eligibility(DB, id).status_code = 200
           /\ evaluate_lending_policy_eligibility(DB, id).body.eligible = FALSE
           /\ evaluate_lending_policy_eligibility(DB, id).db = DB

\* The risk rules an application triggers, by the driver each one adds.
TriggeredRules(db, id) ==
    LET app_obj == db.checking_applications[id]
        b == db.businesses[app_obj.business_id]
        key == "cash_deposit_volume_per_month"
    IN {d \in {"NEW_BUSINESS", "HIGH_CASH_VOLUME", "HIGH_RISK_INDUSTRY"} :
          \/ /\ d = "NEW_BUSINESS"
             /\ b.years_in_business # None
             /\ Val(b.years_in_business) < 1
          \/ /\ d = "HIGH_CASH_VOLUME"
             /\ app_obj.usage_profile # None
             /\ key \in DOMAIN Val(app_obj.usage_profile)
             /\ Val(app_obj.usage_profile)[key] # None
             /\ Val(Val(app_obj.usage_profile)[key]) > 100000 * Unit
          \/ /\ d = "HIGH_RISK_INDUSTRY"
             /\ b.industry_code \in {Some("7995"), Some("9999")}}

\* The score of a set of triggered rules: 20, 30 more for a new business,
\* 30 more for a high cash volume, 20 more for a restricted industry.
ScoreOf(rules) ==
    20 + (IF "NEW_BUSINESS" \in rules THEN 30 ELSE 0)
       + (IF "HIGH_CASH_VOLUME" \in rules THEN 30 ELSE 0)
       + (IF "HIGH_RISK_INDUSTRY" \in rules THEN 20 ELSE 0)

\* C19: risk scoring answers 20 plus 30 for years_in_business < 1, 30 for a
\* cash deposit volume per month above 100000 and 20 for an industry code of
\* {7995, 9999}, with one driver per triggered rule and BASELINE alone when
\* none is; the band is LOW under 30, MEDIUM from 30 to 69, HIGH from 70 (29
\* is LOW, 30 and 69 MEDIUM, 70 HIGH); the row appended carries the score,
\* the band and the drivers of the answer.
C19_RiskScoreRules ==
    /\ RiskBand(29) = "LOW" /\ RiskBand(30) = "MEDIUM"
    /\ RiskBand(69) = "MEDIUM" /\ RiskBand(70) = "HIGH"
    /\ \A id \in DOMAIN checking_applications :
           LET r == score_application_risk(DB, id)
               rules == TriggeredRules(DB, id)
               rows == Appended(checking_risk_scores,
                                r.db.checking_risk_scores)
               drivers == r.body.driver_codes
           IN /\ r.status_code = 200
              /\ r.body.risk_score = ScoreOf(rules)
              /\ Range(drivers) = (IF rules = {} THEN {"BASELINE"} ELSE rules)
              /\ Len(drivers) = Cardinality(Range(drivers))
              /\ r.body.risk_band =
                     (IF ScoreOf(rules) < 30 THEN "LOW"
                      ELSE IF ScoreOf(rules) < 70 THEN "MEDIUM" ELSE "HIGH")
              /\ Len(rows) = 1
              /\ rows[1].checking_application_id = id
              /\ rows[1].risk_score = r.body.risk_score
              /\ rows[1].risk_band = r.body.risk_band
              /\ rows[1].driver_codes = r.body.driver_codes

\* An application of 5 years in industry 1234 with a cash volume of 150000
\* was scored 50, MEDIUM, for HIGH_CASH_VOLUME alone.
C19_Witness ==
    \E i \in 1..Len(checking_risk_scores) :
        LET row == checking_risk_scores[i]
            app_obj == checking_applications[row.checking_application_id]
            b == businesses[app_obj.business_id]
        IN /\ b.years_in_business = Some(5)
           /\ b.industry_code = Some("1234")
           /\ app_obj.usage_profile = UsageProfileOf(Some(150000 * Unit))
           /\ row.risk_score = 50
           /\ row.risk_band = "MEDIUM"
           /\ row.driver_codes = <<"HIGH_CASH_VOLUME">>

\* The product identifier has the letters of PREMIUM in a row, each one
\* capital or small.
NamesPremium(product_id) ==
    LET small == <<"p", "r", "e", "m", "i", "u", "m">>
    IN \E i \in 0..(Len(product_id) - Len(PREMIUM)) :
           \A j \in 1..Len(PREMIUM) :
               product_id[i + j] \in {PREMIUM[j], small[j]}

\* The codes the product eligibility of an application calls for.
IneligibilityCodes(db, id, product_id) ==
    LET b == db.businesses[db.checking_applications[id].business_id]
    IN {c \in {"INDUSTRY_NOT_ALLOWED", "MIN_AGE_OF_BUSINESS_NOT_MET"} :
          \/ /\ c = "INDUSTRY_NOT_ALLOWED"
             /\ b.industry_code \in {Some("7995"), Some("9999")}
          \/ /\ c = "MIN_AGE_OF_BUSINESS_NOT_MET"
             /\ b.years_in_business # None
             /\ Val(b.years_in_business) < 1
             /\ NamesPremium(product_id)}

\* C20: the product eligibility answers INDUSTRY_NOT_ALLOWED exactly for an
\* industry code of {7995, 9999} and MIN_AGE_OF_BUSINESS_NOT_MET exactly for
\* years_in_business < 1 with a product identifier that has PREMIUM in any
\* letter case, both when both rules fire, and eligible is false exactly
\* when a code is answered.
C20_ProductEligibilityRules ==
    \A id \in DOMAIN checking_applications : \A product_id \in ProductIds :
        LET r == evaluate_product_eligibility(DB, id, product_id)
            codes == r.body.reason_codes
        IN /\ r.status_code = 200
           /\ Range(codes) = IneligibilityCodes(DB, id, product_id)
           /\ Len(codes) = Cardinality(Range(codes))
           /\ r.body.eligible = (codes = <<>>)

\* A business of 0 years in industry 9999 asks for PREMIUM_CHECKING and is
\* answered both codes; it is answered the age code for Premium as well, and
\* the industry code alone for BASIC.
C20_Witness ==
    \E id \in DOMAIN checking_applications :
        LET b == businesses[checking_applications[id].business_id]
            answer(product_id) ==
                evaluate_product_eligibility(DB, id, product_id).body
        IN /\ b.years_in_business = Some(0)
           /\ b.industry_code = Some("9999")
           /\ answer(<<"P", "R", "E", "M", "I", "U", "M", "_", "C", "H", "E",
                       "C", "K", "I", "N", "G">>)
                  = [eligible |-> FALSE,
                     reason_codes |-> <<"INDUSTRY_NOT_ALLOWED",
                                        "MIN_AGE_OF_BUSINESS_NOT_MET">>]
           /\ "MIN_AGE_OF_BUSINESS_NOT_MET"
                  \in Range(answer(<<"P", "r", "e", "m", "i", "u", "m">>)
                                .reason_codes)
           /\ answer(<<"B", "A", "S", "I", "C">>).reason_codes
                  = <<"INDUSTRY_NOT_ALLOWED">>

\* The credit reports of a lending application, read from the table, and
\* the score of the one updated last (NULL without any report).
ReportRowsOf(db, id) ==
    {db.business_credit_reports[i] :
        i \in {j \in 1..Len(db.business_credit_reports) :
                  db.business_credit_reports[j].lending_application_id = id}}

LatestScoreOf(db, id) ==
    IF ReportRowsOf(db, id) = {} THEN None
    ELSE (CHOOSE r \in ReportRowsOf(db, id) :
             \A o \in ReportRowsOf(db, id) :
                 o.last_updated_at <= r.last_updated_at).score

\* The codes the lending policy calls for.
PolicyCodes(db, id) ==
    LET app_obj == db.lending_applications[id]
        b == db.businesses[Val(app_obj.business_id)]
    IN {c \in {"LOW_BUREAU_SCORE", "INSUFFICIENT_TENURE_FOR_REQUESTED_AMOUNT"} :
          \/ /\ c = "LOW_BUREAU_SCORE"
             /\ LatestScoreOf(db, id) # None
             /\ Val(LatestScoreOf(db, id)) < 50
          \/ /\ c = "INSUFFICIENT_TENURE_FOR_REQUESTED_AMOUNT"
             /\ b.years_in_business # None
             /\ Val(b.years_in_business) < 1
             /\ app_obj.requested_amount # None
             /\ Val(app_obj.requested_amount) > 50000 * Unit}

\* C21: the lending policy answers LOW_BUREAU_SCORE exactly when the credit
\* report of the application updated last has a score under 50, whatever the
\* older reports say and never without a report, and
\* INSUFFICIENT_TENURE_FOR_REQUESTED_AMOUNT exactly for years_in_business < 1
\* with a requested amount above 50000; eligible is false exactly when a
\* code is answered.
C21_PolicyRules ==
    \A id \in DOMAIN lending_applications :
        LET r == evaluate_lending_policy_eligibility(DB, id)
            codes == r.body.reason_codes
        IN /\ r.status_code = 200
           /\ Range(codes) = PolicyCodes(DB, id)
           /\ Len(codes) = Cardinality(Range(codes))
           /\ ReportRowsOf(DB, id) = {} => "LOW_BUREAU_SCORE" \notin Range(codes)
           /\ r.body.eligible = (codes = <<>>)

\* An application whose report of score 49 was updated after its report of
\* score 80 but stored before it: the policy answers LOW_BUREAU_SCORE.
C21_Witness ==
    \E id \in DOMAIN lending_applications :
        /\ Len(business_credit_reports) = 2
        /\ \A i \in 1..2 : business_credit_reports[i].lending_application_id = id
        /\ business_credit_reports[1].score = Some(49)
        /\ business_credit_reports[2].score = Some(80)
        /\ business_credit_reports[2].last_updated_at
               < business_credit_reports[1].last_updated_at
        /\ evaluate_lending_policy_eligibility(DB, id).body
               = [eligible |-> FALSE, reason_codes |-> <<"LOW_BUREAU_SCORE">>]

\* avg_monthly_revenue of the summary of an application stored last, 0
\* without a summary or a revenue.
LatestRevenueOf(db, id) ==
    LET t == db.lending_transaction_summaries
        ix == {i \in 1..Len(t) : t[i].lending_application_id = id}
        last == CHOOSE i \in ix : \A j \in ix : j <= i
    IN IF ix = {} \/ t[last].avg_monthly_revenue = None THEN 0
       ELSE Val(t[last].avg_monthly_revenue)

\* The grade, the drivers and the exposure the underwriting rules give for
\* a bureau score, the years in business and an average monthly revenue.
UnderwritingOf(score, years, avg) ==
    LET bureau == IF score >= 80 THEN {"GOOD_BUREAU_SCORE"}
                  ELSE IF score < 60 THEN {"LOW_BUREAU_SCORE"} ELSE {}
        history == IF years # None /\ Val(years) < 1
                   THEN {"SHORT_OPERATING_HISTORY"} ELSE {}
    IN [risk_grade |-> IF score >= 80 THEN "A"
                       ELSE IF score < 60 THEN "C" ELSE "B",
        drivers |-> IF bureau \cup history = {} THEN {"BASELINE"}
                    ELSE bureau \cup history,
        recommended_max_exposure |-> IF avg = 0 THEN 50000 * Unit ELSE 2 * avg]

\* C22: underwriting grades the score of the credit report updated last (75
\* without one) and the avg_monthly_revenue of the summary stored last (0
\* without one): A with GOOD_BUREAU_SCORE from 80, C with LOW_BUREAU_SCORE
\* under 60, B without a score driver between; years_in_business < 1 adds
\* SHORT_OPERATING_HISTORY; the drivers are BASELINE alone when none was
\* added; recommended_max_exposure is twice the revenue, 50000 for a revenue
\* of 0, and positive in every Underwriting row.
C22_UnderwritingRules ==
    /\ \A i \in 1..Len(lending_underwriting) :
           lending_underwriting[i].recommended_max_exposure > 0
    /\ \A id \in DOMAIN lending_applications :
           LET r == run_lending_underwriting(DB, id)
               rows == Appended(lending_underwriting, r.db.lending_underwriting)
               b == businesses[Val(lending_applications[id].business_id)]
               score == IF LatestScoreOf(DB, id) = None THEN 75
                        ELSE Val(LatestScoreOf(DB, id))
               rule == UnderwritingOf(score, b.years_in_business,
                                      LatestRevenueOf(DB, id))
           IN /\ r.status_code = 200
              /\ Len(rows) = 1
              /\ rows[1].lending_application_id = id
              /\ rows[1].risk_grade = rule.risk_grade
              /\ Range(rows[1].key_risk_drivers) = rule.drivers
              /\ Len(rows[1].key_risk_drivers) = Cardinality(rule.drivers)
              /\ rows[1].recommended_max_exposure
                     = rule.recommended_max_exposure
              /\ rows[1].recommended_max_exposure > 0
              /\ r.body.risk_grade = rows[1].risk_grade
              /\ r.body.key_risk_drivers = rows[1].key_risk_drivers
              /\ r.body.recommended_max_exposure
                     = rows[1].recommended_max_exposure

\* A new business whose report of score 59 was updated after its report of
\* score 80, with a summary of 1000.00 before one of 0, was underwritten C
\* for LOW_BUREAU_SCORE and SHORT_OPERATING_HISTORY with an exposure of 50000.
C22_Witness ==
    \E u \in 1..Len(lending_underwriting) :
        LET id == lending_underwriting[u].lending_application_id
        IN /\ Len(business_credit_reports) = 2
           /\ ReportRowsOf(DB, id)
                  = {business_credit_reports[1], business_credit_reports[2]}
           /\ business_credit_reports[1].score = Some(59)
           /\ business_credit_reports[2].score = Some(80)
           /\ business_credit_reports[2].last_updated_at
                  < business_credit_reports[1].last_updated_at
           /\ Len(lending_transaction_summaries) = 2
           /\ lending_transaction_summaries[1].lending_application_id = id
           /\ lending_transaction_summaries[1].avg_monthly_revenue
                  = Some(1000 * Unit)
           /\ lending_transaction_summaries[2].avg_monthly_revenue = Some(0)
           /\ lending_underwriting[u].risk_grade = "C"
           /\ lending_underwriting[u].key_risk_drivers
                  = <<"LOW_BUREAU_SCORE", "SHORT_OPERATING_HISTORY">>
           /\ lending_underwriting[u].recommended_max_exposure = 50000 * Unit

\* The two send-notification calls with every payload for the stored
\* applications: the handler's answer to a payload on a store, and the
\* context_type the API writes.
SendCalls ==
    {[api |-> "CHECKING_APPLICATION", payload |-> p] :
        p \in UNION {NotificationPayloads(id) :
                        id \in DOMAIN checking_applications}}
    \cup {[api |-> "LENDING_APPLICATION", payload |-> p] :
             p \in UNION {NotificationPayloads(id) :
                             id \in DOMAIN lending_applications}}

Send(db, call) ==
    IF call.api = "CHECKING_APPLICATION"
    THEN send_final_decision_notification(db, call.payload)
    ELSE send_lending_decision_notification(db, call.payload)

\* C23: a send-decision-notification call on a stored application succeeds
\* on every store and appends one Notification row with delivery_status
\* SENT, the application id as context_id and the context_type of its API;
\* the same call again appends a second row like the first.
C23_EverySendAppends ==
    \A call \in SendCalls :
        LET first == Send(DB, call)
            second == Send(first.db, call)
            rows == Appended(notifications, second.db.notifications)
        IN /\ first.status_code = 200 /\ second.status_code = 200
           /\ first.body.delivery_status = "SENT"
           /\ Len(Appended(notifications, first.db.notifications)) = 1
           /\ Len(rows) = 2
           /\ \A i \in 1..Len(rows) :
                  /\ rows[i].delivery_status = "SENT"
                  /\ rows[i].context_id = call.payload.application_id
                  /\ rows[i].context_type = call.api
                  /\ rows[i].channel = call.payload.channel
                  /\ rows[i].decision = call.payload.decision
           /\ rows[1] = Appended(notifications, first.db.notifications)[1]

\* A notification was sent to a checking application that has no account
\* and no risk score, and the same call again adds a second row.
C23_Witness ==
    \E call \in SendCalls :
        /\ call.api = "CHECKING_APPLICATION"
        /\ checking_accounts = <<>> /\ checking_risk_scores = <<>>
        /\ \E i \in 1..Len(notifications) :
               [notifications[i] EXCEPT !.id = 0]
                   = [NotificationRow(DB, call.api, call.payload) EXCEPT !.id = 0]
        /\ Len(Send(DB, call).db.notifications) = Len(notifications) + 1

\* The codes the verification of an owner row calls for.
OwnerCodes(o) ==
    {c \in {"MISSING_NATIONAL_ID", "MISSING_DOB"} :
        \/ c = "MISSING_NATIONAL_ID" /\ o.national_id \in {None, Some("")}
        \/ c = "MISSING_DOB" /\ o.dob = None}

\* C24: the owner verification answers one result per owner of the
\* application, FAILED with MISSING_NATIONAL_ID and MISSING_DOB for the
\* fields the owner lacks and PASSED for an owner who lacks none; the
\* overall status is FAILED exactly without owners or with a failed owner
\* and PASSED otherwise; without owners the list is empty; no status is
\* MANUAL_REVIEW.
C24_OwnerVerificationRules ==
    \A id \in DOMAIN checking_applications :
        LET r == run_owner_verification(DB, id)
            owners == OwnerRowsOf(DB, id)
            results == r.body.owners
        IN /\ r.status_code = 200
           /\ Len(results) = Cardinality(owners)
           /\ {results[i].owner_id : i \in 1..Len(results)}
                  = {o.id : o \in owners}
           /\ \A i \in 1..Len(results) : \A o \in owners :
                  o.id = results[i].owner_id =>
                      /\ Range(results[i].reason_codes) = OwnerCodes(o)
                      /\ Len(results[i].reason_codes)
                             = Cardinality(OwnerCodes(o))
                      /\ results[i].status
                             = (IF OwnerCodes(o) = {} THEN "PASSED"
                                ELSE "FAILED")
           /\ r.body.overall_status
                  = (IF owners = {} \/ \E o \in owners : OwnerCodes(o) # {}
                     THEN "FAILED" ELSE "PASSED")
           /\ owners = {} => results = <<>>

\* An application with a complete owner and one without national id and
\* date of birth: the first passes, the second fails for both, the
\* verification fails.
C24_Witness ==
    \E id \in DOMAIN checking_applications :
        /\ Len(checking_owners) = 2
        /\ run_owner_verification(DB, id).body
               = [overall_status |-> "FAILED",
                  owners |-> <<[owner_id |-> 1, status |-> "PASSED",
                                reason_codes |-> <<>>],
                               [owner_id |-> 2, status |-> "FAILED",
                                reason_codes |-> <<"MISSING_NATIONAL_ID",
                                                   "MISSING_DOB">>]>>]

\* The Document rows of a checking application, read from the table, and
\* for each uploaded type the row the evaluation keeps: the last one.
DocumentRowsOf(db, id) ==
    {d \in Range(db.checking_documents) : d.checking_application_id = id}

KeptDocuments(db, id) ==
    {d \in DocumentRowsOf(db, id) :
        \A o \in DocumentRowsOf(db, id) : o.doc_type = d.doc_type => o.id <= d.id}

RejectedDocuments(db, id) ==
    {d \in KeptDocuments(db, id) : d.status = "REJECTED"}

\* C25: the document evaluation checks every uploaded type for rejection,
\* required or not: invalid_doc_types are the types whose document (the
\* last one of the type) is REJECTED, reason_codes the reasons of those
\* documents, each once, and docs_ok says that the three required types are
\* uploaded and that no uploaded type is rejected.
C25_EveryUploadedTypeChecked ==
    \A id \in DOMAIN checking_applications :
        LET r == evaluate_document_set_for_application(DB, id)
            rejected == RejectedDocuments(DB, id)
            uploaded == {d.doc_type : d \in DocumentRowsOf(DB, id)}
        IN /\ r.status_code = 200
           /\ r.body.missing_doc_types = RequiredDocTypes \ uploaded
           /\ Range(r.body.invalid_doc_types) = {d.doc_type : d \in rejected}
           /\ Len(r.body.invalid_doc_types) = Cardinality(rejected)
           /\ Range(r.body.reason_codes)
                  = UNION {Range(d.reason_codes) : d \in rejected}
           /\ Len(r.body.reason_codes)
                  = Cardinality(Range(r.body.reason_codes))
           /\ r.body.docs_ok
                  = (RequiredDocTypes \subseteq uploaded /\ rejected = {})

\* C25 as stated: only the required types are checked for rejection, so a
\* REJECTED document of another type is not among invalid_doc_types, its
\* reasons are not among reason_codes, and docs_ok is true whenever the
\* three required types are uploaded and none of them is REJECTED.
C25_OnlyRequiredTypesChecked ==
    \A id \in DOMAIN checking_applications :
        LET r == evaluate_document_set_for_application(DB, id)
            required == {d \in KeptDocuments(DB, id) :
                            d.doc_type \in RequiredDocTypes}
        IN /\ Range(r.body.invalid_doc_types) \subseteq RequiredDocTypes
           /\ Range(r.body.reason_codes)
                  \subseteq UNION {Range(d.reason_codes) :
                                d \in {q \in required : q.status = "REJECTED"}}
           /\ ({d.doc_type : d \in required} = RequiredDocTypes
               /\ \A d \in required : d.status # "REJECTED")
                  => r.body.docs_ok

\* The three required documents are validated and a bank statement is
\* rejected as blurry: the evaluation names the bank statement invalid for
\* BLURRY and the documents are not in order.
C25_Witness ==
    \E id \in DOMAIN checking_applications :
        /\ {d.doc_type : d \in DocumentRowsOf(DB, id)}
               = RequiredDocTypes \cup {"BANK_STATEMENT"}
        /\ \A d \in DocumentRowsOf(DB, id) :
               d.status = "REJECTED" <=> d.doc_type = "BANK_STATEMENT"
        /\ evaluate_document_set_for_application(DB, id).body
               = [docs_ok |-> FALSE, missing_doc_types |-> {},
                  invalid_doc_types |-> <<"BANK_STATEMENT">>,
                  reason_codes |-> <<"BLURRY">>]

\* C26: two open calls on one application that have both passed the
\* existence check are not excluded by each other: while a call is pending
\* and no row is stored, another call passes the check as well, and the
\* commits of two pending calls add two Account rows (two CreditFacility
\* rows) for the application.
C26_OverlappingOpensBothInsert ==
    \A c \in Callers :
        pending[c] # None =>
            LET call == Val(pending[c])
                id == call.id
            IN IF call.api = "CHECKING_APPLICATION"
               THEN /\ AccountRowsOf(DB, id) = {} =>
                           open_account_from_application(DB, id).db # DB
                    /\ \A d \in Callers \ {c} :
                           pending[d] = pending[c] =>
                               Cardinality(AccountRowsOf(
                                   CommitStore(CommitStore(DB, call), call), id))
                                   = Cardinality(AccountRowsOf(DB, id)) + 2
               ELSE /\ FacilityRowsOf(DB, id) = {} =>
                           open_credit_facility_from_lending_application(
                               DB, id).db # DB
                    /\ \A d \in Callers \ {c} :
                           (pending[d] # None /\ Val(pending[d]).api = call.api
                            /\ Val(pending[d]).id = id) =>
                               Cardinality(FacilityRowsOf(
                                   CommitStore(CommitStore(DB, call),
                                               Val(pending[d])), id))
                                   = Cardinality(FacilityRowsOf(DB, id)) + 2

\* A checking application has two Account rows and a lending application
\* two CreditFacility rows.
C26_Witness ==
    /\ \E id \in DOMAIN checking_applications :
           Cardinality(AccountRowsOf(DB, id)) = 2
    /\ \E id \in DOMAIN lending_applications :
           Cardinality(FacilityRowsOf(DB, id)) = 2

\* C27: once an application has an Account or a CreditFacility, an open
\* call answers that row and changes nothing; the open-credit-facility call
\* answers the id, the credit_limit and the apr of the facility whatever
\* Underwriting and Offer rows were created since, and answers the same
\* without any Offer row to consult.
C27_LaterOpenReturnsExisting ==
    /\ \A id \in DOMAIN checking_applications :
           \A i \in AccountRowsOf(DB, id) :
               LET r == open_account_from_application(DB, id)
               IN /\ r.status_code = 200
                  /\ r.db = DB
                  /\ r.body.account_id = checking_accounts[i].id
                  /\ r.body.account_number = checking_accounts[i].account_number
    /\ \A id \in DOMAIN lending_applications :
           \A f \in FacilityRowsOf(DB, id) :
               LET r == open_credit_facility_from_lending_application(DB, id)
                   unread == open_credit_facility_from_lending_application(
                                 [DB EXCEPT !.lending_offers = <<>>], id)
               IN /\ r.status_code = 200
                  /\ r.db = DB
                  /\ r.body.facility_id = credit_facilities[f].id
                  /\ r.body.credit_limit = credit_facilities[f].credit_limit
                  /\ r.body.apr = credit_facilities[f].apr
                  /\ unread.status_code = 200
                  /\ unread.body = r.body

\* The status of an application is DECIDED exactly when it has an Account
\* row.
DecidedIffAccount ==
    \A id \in DOMAIN checking_applications :
        checking_applications[id].status = "DECIDED"
            <=> \E i \in 1..Len(checking_accounts) :
                    checking_accounts[i].checking_application_id = id

\* A step leaves every DECIDED application DECIDED.
DecidedStays ==
    \A id \in DOMAIN checking_applications :
        checking_applications[id].status = "DECIDED"
            => /\ id \in DOMAIN checking_applications'
               /\ checking_applications'[id].status = "DECIDED"

\* C28: with one call served at a time, from checking applications that
\* start without an account and with a status other than DECIDED (or decided
\* with their account), the status of an application is DECIDED if and only
\* if an Account row exists for it, and a DECIDED status is never changed.
C28_DecidedIffAccount == [](DecidedIffAccount) /\ [][DecidedStays]_vars

\* The application that started RECEIVED, without usage profile, has its
\* account and is DECIDED, and was scored and notified as well.
C28_Witness ==
    \E id \in DOMAIN checking_applications :
        /\ DOMAIN lending_applications = {}
        /\ checking_applications[id].usage_profile = None
        /\ checking_applications[id].status = "DECIDED"
        /\ \E i \in 1..Len(checking_accounts) :
               checking_accounts[i].checking_application_id = id
        /\ checking_risk_scores # <<>>
        /\ notifications # <<>>

\* The three steps run in the documented order on an application, one after
\* the other with no other call in between: the three answers.
OrderedRun(db, app_id) ==
    LET underwriting == run_lending_underwriting(db, app_id)
        offers == generate_credit_line_offers(underwriting.db, app_id)
        facility == open_credit_facility_from_lending_application(offers.db,
                                                                   app_id)
    IN [underwriting |-> underwriting, offers |-> offers,
        facility |-> facility]

\* C29: for a lending application that has no facility, whatever the other
\* rows of the store, run-underwriting, generate-offers and
\* open-credit-facility run in that order all succeed, and leave exactly one
\* facility of the application, ACTIVE, whose credit_limit is 0.8 times the
\* recommended_max_exposure that the underwriting run answered.
C29_OrderedRunOpensFacility ==
    \A id \in DOMAIN lending_applications :
        FacilityRowsOf(DB, id) = {} =>
            LET run == OrderedRun(DB, id)
                after == run.facility.db
                rows == {f \in 1..Len(after.credit_facilities) :
                            after.credit_facilities[f].lending_application_id
                                = id}
            IN /\ run.underwriting.status_code = 200
               /\ run.offers.status_code = 200
               /\ run.facility.status_code = 200
               /\ Cardinality(rows) = 1
               /\ \A f \in rows :
                      /\ after.credit_facilities[f].status = "ACTIVE"
                      /\ after.credit_facilities[f].credit_limit * 10 =
                             run.underwriting.body.recommended_max_exposure * 8

=============================================================================
